---- MODULE Spec2Model ----
(***************************************************************************)
(* Model of the resumable ingestion pipeline of src/backend.py: the job    *)
(* registry (job_states), the SQLite store written by process_job and      *)
(* process_log_file, the control handlers (start, pause, resume, delete),  *)
(* the startup rehydration, and the asyncio scheduling of background tasks.*)
(*                                                                         *)
(* Scheduling.  All handlers and all background tasks run on one asyncio   *)
(* event loop.  A handler has no await in its body, so it is one atomic    *)
(* step.  A background task gives up the loop only at                      *)
(* `await asyncio.sleep(0)` (backend.py:354), i.e. after the flush of a    *)
(* full batch, and when it ends.  `running` names the task that holds the  *)
(* loop; handlers and other tasks run only when running = 0.  Between two  *)
(* yields the task is cut into one step per conn.commit(), so that a       *)
(* process kill (Crash) can fall between any two commits.                  *)
(*                                                                         *)
(* The world.  `gone` and `storage` are the part of the world that can     *)
(* change under a job: paths removed from the local tree, and the way the  *)
(* bucket service answers.  Spec and SpecData keep the world as it is at   *)
(* the start; SpecWorld lets it change.  `faults` lists the statements on  *)
(* the store that raised and the compressed streams that broke part-way;   *)
(* only SpecFault has such steps.  `parsed` holds a line and the results   *)
(* of the ingestion parser and of LogProcessor.parse_log_line on it; only  *)
(* SpecParse changes it.  `generated` holds a call of generate_s3_paths   *)
(* and its outcome; only SpecPaths changes it.                             *)
(*                                                                         *)
(* Left out: wall-clock fields other than the second that names a job      *)
(* (last_updated), current_file, the log message text and the autoincrement*)
(* id of logs rows (logs is the bag of its rows).                          *)
(***************************************************************************)
EXTENDS Integers, Sequences, FiniteSets, TLC

(***************************************************************************)
(* Bounds of the model.                                                    *)
(***************************************************************************)
\* batch_size of process_log_file, scaled down from 500
BatchSize == 2
\* start requests accepted over a run of the model
MaxStarts == 1
\* background tasks created between two process starts
MaxTasks == 2
\* process kills over a run of the model
MaxCrashes == 1
\* last clock second at which a request can arrive
MaxClock == 1
\* lines of the file whose content the data model varies
MaxLines == 3
\* changes of the world (a path removed, the bucket service failing, a
\* statement or a stream failing) over a run
MaxWorldChanges == 1

(***************************************************************************)
(* Strings with structure.  A path or a class field is the sequence of its *)
(* pieces, so that split('/') and split('.', 1) are computed, not assumed. *)
(***************************************************************************)
Dot == "."

\* '.' in class_field
HasDot(s) == \E i \in 1..Len(s) : s[i] = Dot

FirstDot(s) == CHOOSE i \in 1..Len(s) : s[i] = Dot /\ \A k \in 1..(i - 1) : s[k] # Dot

\* class_field.split('.', 1): <<service, class_name>>
SplitFirstDot(s) ==
    LET d == FirstDot(s)
    IN  <<SubSeq(s, 1, d - 1), SubSeq(s, d + 1, Len(s))>>

\* the literal 'Unknown'
Unknown == <<"Unknown">>

\* folder_path.split("/")[-1]
Basename(path) == IF Len(path) = 0 THEN "" ELSE path[Len(path)]

\* file.endswith('.gz')
EndsWithGz(name) == name \in {"f1.gz", "f2.gz", "k1.gz", "k2.gz"}

(***************************************************************************)
(* Timestamps.  A timestamp string is modelled by the strptime format it   *)
(* matches (fmt, "" for the empty string, "junk" for a string that matches *)
(* none) and the hour it names.                                            *)
(***************************************************************************)
FmtMillis == "%Y-%m-%d %H:%M:%S,%f"
FmtSeconds == "%Y-%m-%d %H:%M:%S"
FmtApache == "%d/%b/%Y:%H:%M:%S %z"

EmptyTs == [fmt |-> "", hour |-> 0]

\* datetime.strptime(timestamp, fmt): TRUE when it returns, FALSE on ValueError
Strptime(timestamp, fmt) == timestamp.fmt = fmt

\* ParsesTimestamp without the third format
ParsesTimestampTwoFormats(timestamp) ==
    IF Strptime(timestamp, FmtMillis) THEN TRUE
    ELSE Strptime(timestamp, FmtSeconds)

\* the nested try/except of backend.py:89-97 and 310-316
ParsesTimestamp(timestamp) ==
    IF Strptime(timestamp, FmtMillis) THEN TRUE
    ELSE IF Strptime(timestamp, FmtSeconds) THEN TRUE
    ELSE Strptime(timestamp, FmtApache)

\* dt.strftime('%Y-%m-%d %H:00:00')
HourBucket(timestamp) == timestamp.hour

(***************************************************************************)
(* Log lines.  A line is either not JSON at all (json = FALSE) or an       *)
(* object; keys is the set of keys it has.                                 *)
(***************************************************************************)
valid_levels == {"ERROR", "INFO"}

BadLine == [json |-> FALSE, keys |-> {}, level |-> "", class |-> <<>>, logtime |-> EmptyTs]

MkLine(keys, level, class, logtime) ==
    [json |-> TRUE, keys |-> keys, level |-> level, class |-> class, logtime |-> logtime]

\* the body of the per-line try block, backend.py:291-327: the parsed entry
ParseLine(line) ==
    LET timestamp == IF "logtime" \in line.keys THEN line.logtime ELSE EmptyTs
        level0 == IF "level" \in line.keys THEN line.level ELSE "UNKNOWN"
        level == IF level0 \notin valid_levels THEN "UNKNOWN" ELSE level0
        hasClass == "class" \in line.keys /\ Len(line.class) > 0
        parts == IF hasClass /\ HasDot(line.class)
                 THEN SplitFirstDot(line.class)
                 ELSE <<Unknown, Unknown>>
    IN  [logtime |-> timestamp, level |-> level, class |-> parts[2], service |-> parts[1]]

\* LineOk with the JSONDecodeError of backend.py:355 never raised
LineOkAlways(line) == TRUE

\* json.loads succeeded (a JSONDecodeError skips the line, backend.py:355)
LineOk(line) == line.json

\* LogProcessor.parse_log_line, analyzer/log_processor.py:14-55: <<the dict>>, or
\* <<>> for None
parse_log_line(log_line) ==
    IF ~log_line.json THEN <<>>
    ELSE LET timestamp == IF "logtime" \in log_line.keys THEN log_line.logtime ELSE EmptyTs
             level == IF "level" \in log_line.keys THEN log_line.level ELSE "UNKNOWN"
             hasClass == "class" \in log_line.keys /\ Len(log_line.class) > 0
             parts == IF hasClass /\ HasDot(log_line.class)
                      THEN SplitFirstDot(log_line.class)
                      ELSE <<Unknown, Unknown>>
         IN  << [logtime |-> IF ParsesTimestamp(timestamp) THEN timestamp ELSE EmptyTs,
                 level |-> level, class |-> parts[2], service |-> parts[1]] >>

(***************************************************************************)
(* Counting tables: a table is a function from its key to a count.         *)
(***************************************************************************)
Empty == << >>

CountOf(table, k) == IF k \in DOMAIN table THEN table[k] ELSE 0

\* INSERT ... ON CONFLICT(key) DO UPDATE SET count = count + ?, for each key of delta
Upsert(table, delta) ==
    [k \in (DOMAIN table) \cup (DOMAIN delta) |-> CountOf(table, k) + CountOf(delta, k)]

RECURSIVE SumCounts(_)
SumCounts(table) ==
    IF DOMAIN table = {} THEN 0
    ELSE LET k == CHOOSE x \in DOMAIN table : TRUE
         IN  table[k] + SumCounts([x \in (DOMAIN table) \ {k} |-> table[x]])

\* rows of a table that belong to job_id (the first field of every key)
OfJob(table, job_id) == [k \in {x \in DOMAIN table : x[1] = job_id} |-> table[k]]

\* DELETE FROM table WHERE job_id = ?
\* DeleteJobRows with the WHERE clause lost: DELETE FROM table
DeleteJobRowsAll(table, job_id) == [k \in {} |-> table[k]]

DeleteJobRows(table, job_id) == [k \in {x \in DOMAIN table : x[1] # job_id} |-> table[k]]

\* a per-batch dict: for the entries picked by `idx`, key -> number of entries
BatchDict(idx, key) ==
    [k \in {key[i] : i \in idx} |-> Cardinality({i \in idx : key[i] = k})]

Truthy(s) == Len(s) > 0

class_level_batch(job_id, batch) ==
    LET idx == {i \in 1..Len(batch) : Truthy(batch[i].class) /\ batch[i].level # ""}
    IN  BatchDict(idx, [i \in idx |-> <<job_id, batch[i].class, batch[i].level>>])

service_level_batch(job_id, batch) ==
    LET idx == {i \in 1..Len(batch) : Truthy(batch[i].service) /\ batch[i].level # ""}
    IN  BatchDict(idx, [i \in idx |-> <<job_id, batch[i].service, batch[i].level>>])

timeline_batch(job_id, batch) ==
    LET idx == {i \in 1..Len(batch) :
                    /\ batch[i].logtime.fmt # "" /\ batch[i].level # ""
                    /\ ParsesTimestamp(batch[i].logtime)}
    IN  BatchDict(idx, [i \in idx |-> <<job_id, HourBucket(batch[i].logtime), batch[i].level>>])

class_service_batch(job_id, batch) ==
    LET idx == {i \in 1..Len(batch) : Truthy(batch[i].class) /\ Truthy(batch[i].service)}
    IN  BatchDict(idx, [i \in idx |-> <<job_id, batch[i].class, batch[i].service>>])

(***************************************************************************)
(* The world outside the process: the local tree, the bucket, the clock.   *)
(***************************************************************************)
VARIABLES
    gone,                   \* paths removed from the local tree since the start
    storage,                \* how the bucket service answers, see StorageModes
    faults,                 \* the statements and streams that have failed so far
    parsed,                 \* the last line handed to the two line parsers, with
                            \* what each returned
    generated               \* the last call of generate_s3_paths, with its outcome

world == <<gone, storage, faults, parsed, generated>>

DirA == <<"data", "logsA">>
DirEmpty == <<"data", "empty">>
NotADir == <<"data", "missing">>

FA1 == <<"data", "logsA", "f1.gz">>
FA2 == <<"data", "logsA", "sub", "f2.gz">>
Notes == <<"data", "logsA", "notes.txt">>

\* os.path.isdir(folder_path)
IsDir(folder_path) == folder_path \in {DirA, DirEmpty} \ gone

\* os.walk(folder_path): every file below folder_path, in walk order
Walk(folder_path) ==
    IF folder_path = DirA
    THEN (IF FA1 \in gone THEN <<>> ELSE <<FA1>>) \o <<Notes>>
            \o (IF FA2 \in gone THEN <<>> ELSE <<FA2>>)
    ELSE <<>>

\* the answers of the bucket service that the model tells apart:
\*   up          every call succeeds
\*   down        every call raises an exception that is not a ClientError
\*               (the endpoint cannot be reached)
\*   list_fails  listing an hour prefix raises ClientError AccessDenied
\*   get_fails   get_object raises a ClientError other than NoSuchKey
\*   flaky       the first attempt of every call raises an exception that is
\*               not a ClientError (a connection reset), a further attempt
\*               of the same call succeeds
StorageModes == {"up", "down", "list_fails", "get_fails", "flaky"}

\* stop_max_attempt_number of the @retry decorators, backend.py:170, 203, 233
stop_max_attempt_number == 3

\* the attempts of a call ("validate", "list", "get") that raise before one
\* returns
FailingAttempts(call) ==
    IF storage = "flaky" THEN 1
    ELSE IF storage = "down" THEN stop_max_attempt_number
    ELSE IF storage = "list_fails" /\ call = "list" THEN stop_max_attempt_number
    ELSE IF storage = "get_fails" /\ call = "get" THEN stop_max_attempt_number
    ELSE 0

\* the calls that retrying.retry makes of a decorated function: again after an
\* exception, until a call returns or the last attempt has raised
Attempts(call) ==
    IF FailingAttempts(call) >= stop_max_attempt_number THEN stop_max_attempt_number
    ELSE FailingAttempts(call) + 1

\* the decorated function raises: every attempt did
RetryRaises(call) == FailingAttempts(call) >= stop_max_attempt_number

\* the runs of the body of stream_s3_log_file, a generator function under
\* @retry (backend.py:233-234): the call that the decorator wraps returns the
\* generator without running its body, the body runs when process_log_file
\* iterates, once
GeneratorAttempts == 1

\* the body of the generator raises: its only run did
GeneratorRaises(call) == FailingAttempts(call) >= GeneratorAttempts

bucket_name == "k8-customer-logs"

\* s3://k8-customer-logs/ as split('/') sees it
S3Root == <<"s3:", "", bucket_name>>

\* the hours 'YYYYMMDD-HH' that the model's requests can name, in time order
Hours == <<"20240101-22", "20240101-23", "20240102-00">>

\* the last hours that a datetime can hold, up to datetime.max
LastHours == <<"99991231-21", "99991231-22", "99991231-23">>

\* the hours since 0001-01-01 00:00 of Hours[1] and of the hour of datetime.max
first_hour == 17733262
datetime_max == 87649415

\* the hour strings of the model with the datetime each one stands for, as
\* hours since 0001-01-01 00:00
Calendar ==
    {<<Hours[i], first_hour + i - 1>> : i \in 1..Len(Hours)}
        \cup {<<LastHours[i], datetime_max - Len(LastHours) + i>> : i \in 1..Len(LastHours)}

\* datetime.strptime(s, '%Y%m%d-%H'): the datetime (0 on ValueError)
ParseHour(s) == IF \E c \in Calendar : c[1] = s
                THEN (CHOOSE c \in Calendar : c[1] = s)[2]
                ELSE 0

\* dt.strftime('%Y%m%d-%H')
strftime(dt) == (CHOOSE c \in Calendar : c[2] = dt)[1]

\* keys of the bucket, in listing order
BucketKeys == << <<"cust", "20240101-22", "k1.gz">>, <<"cust", "20240101-22", "k1.txt">>,
                 <<"cust", "20240101-23", "k2.gz">> >>

StartsWith(s, prefix) == Len(s) >= Len(prefix) /\ SubSeq(s, 1, Len(prefix)) = prefix

FileKeys == {FA1, FA2, S3Root \o BucketKeys[1], S3Root \o BucketKeys[3]}

K1 == S3Root \o BucketKeys[1]
K2 == S3Root \o BucketKeys[3]

(***************************************************************************)
(* Sample lines and file contents.                                         *)
(***************************************************************************)
TsSeconds == [fmt |-> FmtSeconds, hour |-> 10]
TsMillis == [fmt |-> FmtMillis, hour |-> 10]
TsApache == [fmt |-> FmtApache, hour |-> 11]
TsJunk == [fmt |-> "junk", hour |-> 0]

LineFull == MkLine({"logtime", "level", "class"}, "ERROR", <<"svcA", Dot, "ClassX">>, TsSeconds)
LineNoClass == MkLine({"level"}, "INFO", <<>>, EmptyTs)
LineJunkTs == MkLine({"logtime", "level", "class"}, "TRACE", <<"NoDot">>, TsJunk)

\* n lines, taken in turn from `pattern`
Lines(pattern, n) == [i \in 1..n |-> pattern[((i - 1) % Len(pattern)) + 1]]

\* contents a file of the control model can have: less than a batch, exactly one
\* batch, one batch and a rest (with a line that is not JSON in it)
ControlContents ==
    { Lines(<<LineFull>>, 1),
      Lines(<<LineFull, LineJunkTs>>, BatchSize),
      Lines(<<LineFull, LineNoClass, BadLine, LineJunkTs>>, BatchSize + 2) }

(***************************************************************************)
(* State.                                                                  *)
(***************************************************************************)
VARIABLES
    disk,                   \* file path -> its lines (local files and bucket objects)
    clock,                  \* datetime.now() of the last start request, in seconds
    db_initialized,         \* backend.py:31; FALSE until startup_event has run
    job_states,             \* backend.py:30, job_id -> in-memory snapshot
    jobs,                   \* table jobs, job_id -> row
    logs,                   \* table logs, row -> number of copies
    job_metadata,           \* table job_metadata, a set of <<job_id, type, value>>
    class_level_counts,     \* the four summary tables, key -> count
    service_level_counts,
    timeline_counts,
    class_service_counts,
    tasks,                  \* the process_job tasks created since the process started
    running,                \* index in tasks of the task that holds the event loop, or 0
    starts,                 \* start requests accepted so far
    crashes,                \* process kills so far
    cut,                    \* history: <<job_id, file>> that a kill left with committed
                            \* rows and no processed_file marker
    early                   \* history: a request was served between the creation of
                            \* a task and its first step

store == <<jobs, logs, job_metadata, class_level_counts, service_level_counts,
           timeline_counts, class_service_counts>>

vars == <<gone, storage, faults, parsed, generated, disk, clock, db_initialized, job_states, jobs, logs, job_metadata,
          class_level_counts, service_level_counts, timeline_counts,
          class_service_counts, tasks, running, starts, crashes, cut, early>>

\* job_id of start_job: name + "_" + start_time
JobId(name, start_time) == <<name, start_time>>

\* the dict built at backend.py:619-628 and 571-580
Snapshot(folder_path, status, files_processed, total_files) ==
    [folder_path |-> folder_path, status |-> status,
     files_processed |-> files_processed, total_files |-> total_files]

\* SELECT value FROM job_metadata WHERE job_id = ? AND type = 'processed_file'
ProcessedFiles(metadata, job_id) ==
    {m[3] : m \in {x \in metadata : x[1] = job_id /\ x[2] = "processed_file"}}

InitStore ==
    /\ jobs = Empty
    /\ logs = Empty
    /\ job_metadata = {}
    /\ class_level_counts = Empty
    /\ service_level_counts = Empty
    /\ timeline_counts = Empty
    /\ class_service_counts = Empty

InitWorld ==
    /\ gone = {}
    /\ storage = "up"
    /\ faults = <<>>
    /\ parsed = [line |-> BadLine, ingestion |-> <<>>, library |-> <<>>]
    /\ generated = [customer_folder |-> "cust", start_datetime |-> Hours[1],
                    end_datetime |-> Hours[1], raised |-> FALSE,
                    result |-> << <<"cust", Hours[1]>> >>]

InitProcess ==
    /\ clock = 0
    /\ db_initialized = FALSE
    /\ job_states = Empty
    /\ tasks = <<>>
    /\ running = 0
    /\ starts = 0
    /\ crashes = 0
    /\ cut = {}
    /\ early = FALSE

Init ==
    /\ \E c1, c2 \in ControlContents :
          disk = [f \in FileKeys |->
                    IF f = FA1 THEN c1
                    ELSE IF f = FA2 THEN c2
                    ELSE IF f = K1
                    THEN Lines(<<LineFull, LineNoClass, BadLine, LineJunkTs>>, BatchSize + 2)
                    ELSE Lines(<<LineFull>>, 1)]
    /\ InitWorld
    /\ InitStore
    /\ InitProcess

(***************************************************************************)
(* Background tasks.                                                       *)
(***************************************************************************)
\* asyncio.create_task(process_job(job_id, folder_path, customer_folder, ...))
NewTask(job_id, folder_path, customer_folder, start_datetime, end_datetime) ==
    [job_id |-> job_id, folder_path |-> folder_path, customer_folder |-> customer_folder,
     start_datetime |-> start_datetime, end_datetime |-> end_datetime,
     pc |-> "created", exit |-> "",
     log_files |-> <<>>, processed_files |-> {}, idx |-> 1,
     line_idx |-> 0, log_batch |-> <<>>]

\* a task that has ended: returned ("completed", "paused") or raised ("error",
\* or "died" when the except block of process_job itself raised)
Ended(job_id, exit) ==
    [job_id |-> job_id, folder_path |-> <<>>, customer_folder |-> "",
     start_datetime |-> "", end_datetime |-> "",
     pc |-> "done", exit |-> exit,
     log_files |-> <<>>, processed_files |-> {}, idx |-> 1,
     line_idx |-> 0, log_batch |-> <<>>]

Active(t) == tasks[t].pc # "done"

ActiveTasksOf(job_id) == {t \in 1..Len(tasks) : Active(t) /\ tasks[t].job_id = job_id}

\* a task was created and has not run yet
TaskWaiting == \E t \in 1..Len(tasks) : tasks[t].pc = "created"

\* the event loop is free: every task is at `await asyncio.sleep(0)`, not yet
\* started, or ended
LoopFree == running = 0

(***************************************************************************)
(* startup_event, backend.py:548-588.                                      *)
(***************************************************************************)
startup_event ==
    /\ ~db_initialized
    /\ db_initialized' = TRUE
    /\ job_states' = [j \in (DOMAIN job_states) \cup (DOMAIN jobs) |->
                        IF j \in DOMAIN jobs
                        THEN Snapshot(jobs[j].folder_path, jobs[j].status,
                                      jobs[j].files_processed, jobs[j].total_files)
                        ELSE job_states[j]]
    /\ UNCHANGED <<world, disk, clock, store, tasks, running, starts, crashes, cut, early>>

(***************************************************************************)
(* start_job, backend.py:595-671.                                          *)
(***************************************************************************)
NoRequest == [folder_path |-> <<>>, customer_folder |-> "",
              start_datetime |-> "", end_datetime |-> ""]

LocalRequest(folder_path) == [NoRequest EXCEPT !.folder_path = folder_path]

BucketRequest(customer_folder, start_datetime, end_datetime) ==
    [NoRequest EXCEPT !.customer_folder = customer_folder,
                      !.start_datetime = start_datetime, !.end_datetime = end_datetime]

\* the requests the model sends
Requests ==
    { LocalRequest(DirA), LocalRequest(DirEmpty), LocalRequest(NotADir),
      BucketRequest("cust", Hours[1], Hours[2]),
      BucketRequest("ghost", Hours[1], Hours[1]) }

IsLocalRequest(request) ==
    /\ Len(request.folder_path) > 0
    /\ ~(request.customer_folder # "" \/ request.start_datetime # ""
            \/ request.end_datetime # "")

IsBucketRequest(request) ==
    /\ ~IsLocalRequest(request)
    /\ request.customer_folder # "" /\ request.start_datetime # ""
    /\ request.end_datetime # ""
    /\ ParseHour(request.start_datetime) # 0 /\ ParseHour(request.end_datetime) # 0

\* job_id, backend.py:603 and 612
RequestJobId(request, start_time) ==
    IF IsLocalRequest(request)
    THEN JobId(Basename(request.folder_path), start_time)
    ELSE JobId(request.customer_folder, start_time)

\* folder_path_display, backend.py:604 and 613
RequestDisplay(request) ==
    IF IsLocalRequest(request) THEN request.folder_path
    ELSE S3Root \o <<request.customer_folder>>

JobRow(folder_path, status, files_processed, total_files) ==
    [folder_path |-> folder_path, status |-> status,
     files_processed |-> files_processed, total_files |-> total_files]

Put(f, k, v) == [x \in (DOMAIN f) \cup {k} |-> IF x = k THEN v ELSE f[x]]

Remove(f, k) == [x \in (DOMAIN f) \ {k} |-> f[x]]

start_job(request, now) ==
    /\ db_initialized /\ LoopFree
    /\ starts < MaxStarts /\ Len(tasks) < MaxTasks
    /\ IsLocalRequest(request) \/ IsBucketRequest(request)
    /\ clock' = now
    /\ LET job_id == RequestJobId(request, now)
           display == RequestDisplay(request)
           fresh == Snapshot(display, "RUNNING", 0, 0)
       IN  IF job_id \in DOMAIN jobs
           THEN \* INSERT INTO jobs raises on the primary key: backend.py:667-671
                /\ job_states' = Put(job_states, job_id, [fresh EXCEPT !.status = "ERROR"])
                /\ UNCHANGED <<store, tasks>>
           ELSE /\ job_states' = Put(job_states, job_id, fresh)
                /\ jobs' = Put(jobs, job_id, JobRow(display, "RUNNING", 0, 0))
                /\ job_metadata' =
                     IF IsBucketRequest(request)
                     THEN job_metadata \cup
                            { <<job_id, "start_datetime", <<request.start_datetime>> >>,
                              <<job_id, "end_datetime", <<request.end_datetime>> >> }
                     ELSE job_metadata
                /\ tasks' = Append(tasks, NewTask(job_id, request.folder_path,
                                                  request.customer_folder,
                                                  request.start_datetime,
                                                  request.end_datetime))
                /\ UNCHANGED <<logs, class_level_counts, service_level_counts,
                               timeline_counts, class_service_counts>>
    /\ starts' = starts + 1
    /\ early' = (early \/ TaskWaiting)
    /\ UNCHANGED <<world, disk, db_initialized, running, crashes, cut>>

(***************************************************************************)
(* pause_job, backend.py:702-729.                                          *)
(***************************************************************************)
SetStatus(table, job_id, status) ==
    IF job_id \in DOMAIN table THEN [table EXCEPT ![job_id].status = status] ELSE table

\* pause_job_response without the status check of backend.py:708-710
pause_job_response_any_status(job_id) ==
    IF job_id \notin DOMAIN job_states THEN 404 ELSE 200

\* the HTTP status that pause_job answers, backend.py:705-729
pause_job_response(job_id) ==
    IF job_id \notin DOMAIN job_states THEN 404
    ELSE IF job_states[job_id].status # "RUNNING" THEN 400
    ELSE 200

pause_job(job_id) ==
    /\ db_initialized /\ LoopFree
    /\ pause_job_response(job_id) = 200
    /\ job_states' = SetStatus(job_states, job_id, "PAUSED")
    /\ jobs' = SetStatus(jobs, job_id, "PAUSED")
    /\ UNCHANGED <<world, disk, clock, db_initialized, logs, job_metadata, class_level_counts,
                   service_level_counts, timeline_counts, class_service_counts,
                   tasks, running, starts, crashes, cut>>
    /\ early' = (early \/ TaskWaiting)

(***************************************************************************)
(* resume_job, backend.py:731-786.                                         *)
(***************************************************************************)
\* the checks that answer 404 and 400 before anything is changed
ResumeAccepted(job_id) ==
    /\ job_id \in DOMAIN job_states
    /\ job_states[job_id].status = "PAUSED"

\* the HTTP status that resume_job answers, backend.py:734-786: an
\* HTTPException raised inside the try block is caught at 784 and answered as 500
resume_job_response(job_id) ==
    IF job_id \notin DOMAIN job_states THEN 404
    ELSE IF job_states[job_id].status # "PAUSED" THEN 400
    ELSE IF job_id \notin DOMAIN jobs THEN 500
    ELSE IF StartsWith(jobs[job_id].folder_path, S3Root) THEN 500
    ELSE 200

\* resume_job without the refusal of backend.py:760-765: a bucket job is
\* resumed with the range that resume_job has at hand, which is empty
resume_job_any_source(job_id) ==
    /\ db_initialized /\ LoopFree
    /\ ResumeAccepted(job_id)
    /\ Len(tasks) < MaxTasks
    /\ job_states' = SetStatus(job_states, job_id, "RUNNING")
    /\ IF job_id \notin DOMAIN jobs
       THEN UNCHANGED <<store, tasks>>
       ELSE /\ jobs' = SetStatus(jobs, job_id, "RUNNING")
            /\ tasks' = Append(tasks,
                    IF StartsWith(jobs[job_id].folder_path, S3Root)
                    THEN NewTask(job_id, <<>>, Basename(jobs[job_id].folder_path), "", "")
                    ELSE NewTask(job_id, jobs[job_id].folder_path, "", "", ""))
            /\ UNCHANGED <<logs, job_metadata, class_level_counts, service_level_counts,
                           timeline_counts, class_service_counts>>
    /\ early' = (early \/ TaskWaiting)
    /\ UNCHANGED <<world, disk, clock, db_initialized, running, starts, crashes, cut>>

resume_job(job_id) ==
    /\ db_initialized /\ LoopFree
    /\ ResumeAccepted(job_id)
    /\ Len(tasks) < MaxTasks
    /\ job_states' = SetStatus(job_states, job_id, "RUNNING")
    /\ IF job_id \notin DOMAIN jobs
       THEN \* no row: HTTPException, re-raised at backend.py:784-786
            UNCHANGED <<store, tasks>>
       ELSE IF StartsWith(jobs[job_id].folder_path, S3Root)
       THEN \* backend.py:760-765: a bucket job is never resumed
            UNCHANGED <<store, tasks>>
       ELSE /\ jobs' = SetStatus(jobs, job_id, "RUNNING")
            /\ tasks' = Append(tasks, NewTask(job_id, jobs[job_id].folder_path, "", "", ""))
            /\ UNCHANGED <<logs, job_metadata, class_level_counts, service_level_counts,
                           timeline_counts, class_service_counts>>
    /\ early' = (early \/ TaskWaiting)
    /\ UNCHANGED <<world, disk, clock, db_initialized, running, starts, crashes, cut>>

(***************************************************************************)
(* delete_job, backend.py:788-826.                                         *)
(***************************************************************************)
\* the HTTP status that delete_job answers, backend.py:791-826
delete_job_response(job_id) == IF job_id \notin DOMAIN job_states THEN 404 ELSE 200

\* the HTTP status that get_job_status answers, backend.py:676-680
get_job_status_response(job_id) == IF job_id \notin DOMAIN job_states THEN 404 ELSE 200

delete_job(job_id) ==
    /\ db_initialized /\ LoopFree
    /\ delete_job_response(job_id) = 200
    /\ jobs' = Remove(jobs, job_id)
    /\ logs' = DeleteJobRows(logs, job_id)
    /\ job_metadata' = {m \in job_metadata : m[1] # job_id}
    /\ class_level_counts' = DeleteJobRows(class_level_counts, job_id)
    /\ service_level_counts' = DeleteJobRows(service_level_counts, job_id)
    /\ timeline_counts' = DeleteJobRows(timeline_counts, job_id)
    /\ class_service_counts' = DeleteJobRows(class_service_counts, job_id)
    /\ job_states' = Remove(job_states, job_id)
    /\ early' = (early \/ TaskWaiting)
    /\ UNCHANGED <<world, disk, clock, db_initialized, tasks, running, starts, crashes, cut>>

(***************************************************************************)
(* The environment: a kill of the process followed by its restart (memory  *)
(* is lost, the committed store is kept).  The clock moves with the start  *)
(* requests, the only readers of it that the model keeps.                  *)
(***************************************************************************)
\* <<job_id, file>> with rows in logs and no processed_file marker
PartialFiles ==
    {<<row[1], row[6]>> : row \in {r \in DOMAIN logs :
                                      <<r[1], "processed_file", r[6]>> \notin job_metadata}}

Crash ==
    /\ crashes < MaxCrashes
    /\ crashes' = crashes + 1
    /\ cut' = cut \cup PartialFiles
    /\ db_initialized' = FALSE
    /\ job_states' = Empty
    /\ tasks' = <<>>
    /\ running' = 0
    /\ UNCHANGED <<world, disk, clock, store, starts, early>>

(***************************************************************************)
(* Enumeration of the source, backend.py:406-458.                          *)
(***************************************************************************)
RECURSIVE Filter(_, _)
\* the elements of seq that are in `keep`, in order
Filter(seq, keep) ==
    IF seq = <<>> THEN <<>>
    ELSE (IF Head(seq) \in keep THEN <<Head(seq)>> ELSE <<>>) \o Filter(Tail(seq), keep)

Range(seq) == {seq[i] : i \in 1..Len(seq)}

\* the os.walk loop of backend.py:421-427
WalkGz(folder_path) ==
    Filter(Walk(folder_path), {f \in Range(Walk(folder_path)) : EndsWithGz(Basename(f))})

\* validate_customer_folder, backend.py:171-186: some key lies under the folder
validate_customer_folder(customer_folder) ==
    \E i \in 1..Len(BucketKeys) : BucketKeys[i][1] = customer_folder

\* the call of validate_customer_folder raises (backend.py:198-200, re-raised
\* after the attempts of @retry)
ValidateRaises == RetryRaises("validate")

RECURSIVE PathsLoop(_, _, _, _)
\* the while loop of backend.py:154-158 from current_dt on:
\* <<the addition of timedelta(hours=1) raised OverflowError, paths>>
PathsLoop(customer_folder, current_dt, end_dt, paths) ==
    IF current_dt > end_dt THEN <<FALSE, paths>>
    ELSE LET appended == Append(paths, <<customer_folder, strftime(current_dt)>>)
         IN  IF current_dt + 1 > datetime_max
             THEN <<TRUE, appended>>
             ELSE PathsLoop(customer_folder, current_dt + 1, end_dt, appended)

\* backend.py:147-150 and 163-168: generate_s3_paths raises, on a datetime that
\* does not parse, on start > end, or out of the loop
PathsError(start_datetime, end_datetime) ==
    \/ ParseHour(start_datetime) = 0 \/ ParseHour(end_datetime) = 0
    \/ ParseHour(start_datetime) > ParseHour(end_datetime)
    \/ PathsLoop("", ParseHour(start_datetime), ParseHour(end_datetime), <<>>)[1]

\* generate_s3_paths, backend.py:144-162: the prefixes that it returns (none
\* when it raises)
generate_s3_paths(customer_folder, start_datetime, end_datetime) ==
    IF PathsError(start_datetime, end_datetime) THEN <<>>
    ELSE PathsLoop(customer_folder, ParseHour(start_datetime), ParseHour(end_datetime),
                   <<>>)[2]

\* list_s3_files, backend.py:203-217: the .gz keys under the prefix
list_s3_files(prefix) ==
    Filter(BucketKeys, {k \in Range(BucketKeys) :
                            StartsWith(k, prefix) /\ EndsWithGz(Basename(k))})

\* the call of list_s3_files raises (backend.py:218-231, re-raised after the
\* attempts of @retry)
ListRaises == RetryRaises("list")

RECURSIVE ListAll(_)
\* backend.py:448-457: a prefix whose listing raises is skipped
ListAll(s3_paths) ==
    IF s3_paths = <<>> THEN <<>>
    ELSE IF ListRaises THEN ListAll(Tail(s3_paths))
    ELSE LET files == list_s3_files(Head(s3_paths))
         IN  [i \in 1..Len(files) |-> S3Root \o files[i]] \o ListAll(Tail(s3_paths))

IsLocalTask(task) == Len(task.folder_path) > 0

\* InvalidSource with the checks of backend.py:407 and 434 lost
InvalidSourceNever(task) == FALSE

\* the source cannot be enumerated: backend.py:407 and 434
InvalidSource(task) ==
    IF IsLocalTask(task) THEN ~IsDir(task.folder_path)
    ELSE ~validate_customer_folder(task.customer_folder)

\* log_files of process_job
Enumerate(task) ==
    IF IsLocalTask(task) THEN WalkGz(task.folder_path)
    ELSE ListAll(generate_s3_paths(task.customer_folder, task.start_datetime,
                                   task.end_datetime))

folder_path_display(task) ==
    IF IsLocalTask(task) THEN task.folder_path ELSE S3Root \o <<task.customer_folder>>

(***************************************************************************)
(* process_job, backend.py:397-546, one action per stretch between commits.*)
(***************************************************************************)
CanRun(t) == t \in 1..Len(tasks) /\ Active(t) /\ db_initialized /\ running \in {0, t}

\* UPDATE jobs SET ... WHERE job_id = ? (no row, no change)
UpdateRow(table, job_id, status, files_processed, total_files) ==
    IF job_id \in DOMAIN table
    THEN [table EXCEPT ![job_id].status = status,
                       ![job_id].files_processed = files_processed,
                       ![job_id].total_files = total_files]
    ELSE table

\* the task ends: it leaves the event loop
End(t, exit) ==
    /\ tasks' = [tasks EXCEPT ![t] = Ended(tasks[t].job_id, exit)]
    /\ running' = 0

\* the except block of process_job, backend.py:536-546.  job_states[job_id] of a
\* deleted job raises KeyError inside the block: nothing more is written.
Fail(t) ==
    LET job_id == tasks[t].job_id
    IN  IF job_id \notin DOMAIN job_states
        THEN /\ End(t, "died")
             /\ UNCHANGED <<job_states, jobs>>
        ELSE /\ job_states' = SetStatus(job_states, job_id, "ERROR")
             /\ jobs' = UpdateRow(jobs, job_id, "ERROR", job_states[job_id].files_processed,
                                  job_states[job_id].total_files)
             /\ End(t, "error")

data == <<logs, job_metadata, class_level_counts, service_level_counts,
          timeline_counts, class_service_counts>>

\* backend.py:402-491: from the start of the task to the head of the file loop
process_job_begin(t) ==
    /\ CanRun(t) /\ tasks[t].pc = "created"
    /\ LET task == tasks[t]
           job_id == task.job_id
           known == job_id \in DOMAIN job_states
       IN  IF ~IsLocalTask(task) /\ ValidateRaises
           THEN Fail(t)
           ELSE IF InvalidSource(task)
           THEN \* backend.py:407-418 and 434-445
                /\ jobs' = UpdateRow(jobs, job_id, "ERROR", 0, 0)
                /\ job_states' = IF known
                                 THEN Put(job_states, job_id,
                                          [job_states[job_id] EXCEPT !.status = "ERROR",
                                              !.files_processed = 0, !.total_files = 0])
                                 ELSE job_states
                /\ End(t, IF known THEN "error" ELSE "died")
           ELSE IF ~IsLocalTask(task) /\ PathsError(task.start_datetime, task.end_datetime)
           THEN Fail(t)
           ELSE IF Len(Enumerate(task)) = 0
           THEN \* backend.py:460-471
                /\ jobs' = UpdateRow(jobs, job_id, "COMPLETED", 0, 0)
                /\ job_states' = IF known
                                 THEN Put(job_states, job_id,
                                          [job_states[job_id] EXCEPT !.status = "COMPLETED",
                                              !.files_processed = 0, !.total_files = 0])
                                 ELSE job_states
                /\ End(t, IF known THEN "completed" ELSE "died")
           ELSE \* backend.py:473-490
                LET log_files == Enumerate(task)
                    processed_files == ProcessedFiles(job_metadata, job_id)
                    files_processed == Cardinality(processed_files)
                IN  /\ jobs' = UpdateRow(jobs, job_id, "RUNNING", files_processed,
                                         Len(log_files))
                    /\ IF known
                       THEN /\ job_states' = Put(job_states, job_id,
                                   [job_states[job_id] EXCEPT
                                       !.total_files = Len(log_files),
                                       !.files_processed = files_processed,
                                       !.folder_path = folder_path_display(task)])
                            /\ tasks' = [tasks EXCEPT ![t].pc = "file_loop",
                                            ![t].log_files = log_files,
                                            ![t].processed_files = processed_files,
                                            ![t].idx = 1]
                            /\ running' = t
                       ELSE /\ UNCHANGED job_states
                            /\ End(t, "died")
    /\ UNCHANGED <<world, disk, clock, db_initialized, data, starts, crashes, cut, early>>

\* Pending without the skip of backend.py:494-496
PendingAll(task) == task.idx..Len(task.log_files)

\* positions of the for loop of backend.py:493 that are left: files not skipped
\* at backend.py:494-496
Pending(task) ==
    {i \in task.idx..Len(task.log_files) : task.log_files[i] \notin task.processed_files}

\* NextIdx taking the last of the files that are left instead of the first
NextIdxLast(task) == CHOOSE i \in Pending(task) : \A k \in Pending(task) : i >= k

NextIdx(task) == CHOOSE i \in Pending(task) : \A k \in Pending(task) : i <= k

\* process_job_complete without the status update of backend.py:526-533
process_job_complete_silent(t) ==
    /\ CanRun(t) /\ tasks[t].pc = "file_loop"
    /\ Pending(tasks[t]) = {}
    /\ End(t, "completed")
    /\ UNCHANGED <<world, disk, clock, db_initialized, job_states, store, starts, crashes,
                   cut, early>>

\* backend.py:525-535: the loop is over
process_job_complete(t) ==
    /\ CanRun(t) /\ tasks[t].pc = "file_loop"
    /\ Pending(tasks[t]) = {}
    /\ LET job_id == tasks[t].job_id
       IN  IF job_id \notin DOMAIN job_states
           THEN Fail(t)
           ELSE /\ job_states' = SetStatus(job_states, job_id, "COMPLETED")
                /\ jobs' = UpdateRow(jobs, job_id, "COMPLETED",
                                     job_states[job_id].files_processed,
                                     Len(tasks[t].log_files))
                /\ End(t, "completed")
    /\ UNCHANGED <<world, disk, clock, db_initialized, data, starts, crashes, cut, early>>

\* backend.py:498-506: the pause is seen at the head of the next file
process_job_paused(t) ==
    /\ CanRun(t) /\ tasks[t].pc = "file_loop"
    /\ Pending(tasks[t]) # {}
    /\ LET job_id == tasks[t].job_id
       IN  /\ job_id \in DOMAIN job_states
           /\ job_states[job_id].status = "PAUSED"
           /\ jobs' = IF job_id \in DOMAIN jobs
                      THEN [jobs EXCEPT ![job_id].status = "PAUSED",
                               ![job_id].files_processed = job_states[job_id].files_processed]
                      ELSE jobs
           /\ End(t, "paused")
    /\ UNCHANGED <<world, disk, clock, db_initialized, job_states, data, starts, crashes, cut, early>>

IsBucketFile(file_path) == StartsWith(file_path, S3Root)

\* opening the file raises: gzip.open of a local file that is gone
\* (backend.py:285), or get_object answering a ClientError that
\* stream_s3_log_file turns into an HTTPException (backend.py:253-259)
OpenRaises(file_path) ==
    IF IsBucketFile(file_path) THEN storage = "get_fails" ELSE file_path \in gone

\* the lines that the task gets from the file.  stream_s3_log_file ends the
\* stream without raising on an exception that is not a ClientError
\* (backend.py:263-265).
StreamLines(file_path) ==
    IF IsBucketFile(file_path) /\ storage # "get_fails" /\ GeneratorRaises("get")
    THEN <<>> ELSE disk[file_path]

\* process_job_next_file without the pause check of backend.py:498
process_job_next_file_unchecked(t) ==
    /\ CanRun(t) /\ tasks[t].pc = "file_loop"
    /\ Pending(tasks[t]) # {}
    /\ tasks[t].job_id \in DOMAIN job_states
    /\ IF OpenRaises(tasks[t].log_files[NextIdx(tasks[t])])
       THEN Fail(t)
       ELSE /\ tasks' = [tasks EXCEPT ![t].pc = "in_file", ![t].idx = NextIdx(tasks[t]),
                                      ![t].line_idx = 0, ![t].log_batch = <<>>]
            /\ running' = t
            /\ UNCHANGED <<job_states, jobs>>
    /\ UNCHANGED <<world, disk, clock, db_initialized, data, starts, crashes, cut, early>>

\* backend.py:508-514 and 270-287: the next file is opened
process_job_next_file(t) ==
    /\ CanRun(t) /\ tasks[t].pc = "file_loop"
    /\ Pending(tasks[t]) # {}
    /\ tasks[t].job_id \in DOMAIN job_states
    /\ job_states[tasks[t].job_id].status # "PAUSED"
    /\ IF OpenRaises(tasks[t].log_files[NextIdx(tasks[t])])
       THEN Fail(t)
       ELSE /\ tasks' = [tasks EXCEPT ![t].pc = "in_file", ![t].idx = NextIdx(tasks[t]),
                                      ![t].line_idx = 0, ![t].log_batch = <<>>]
            /\ running' = t
            /\ UNCHANGED <<job_states, jobs>>
    /\ UNCHANGED <<world, disk, clock, db_initialized, data, starts, crashes, cut, early>>

(***************************************************************************)
(* process_log_file, backend.py:267-395.                                   *)
(***************************************************************************)
RECURSIVE ReadLines(_, _, _)
\* the for loop of backend.py:289-330 from line index line_idx (0-based) on, until
\* the batch is full or the lines end: <<line index reached, batch>>
ReadLines(lines, line_idx, log_batch) ==
    IF line_idx >= Len(lines) \/ Len(log_batch) >= BatchSize
    THEN <<line_idx, log_batch>>
    ELSE LET line == lines[line_idx + 1]
         IN  IF LineOk(line)
             THEN ReadLines(lines, line_idx + 1,
                            Append(log_batch, [entry |-> ParseLine(line),
                                               line_idx |-> line_idx]))
             ELSE ReadLines(lines, line_idx + 1, log_batch)

\* the tuple appended at backend.py:320
LogRow(job_id, file_path, item) ==
    <<job_id, item.entry.logtime, item.entry.level, item.entry.class,
      item.entry.service, file_path, item.line_idx>>

Entries(log_batch) == [i \in 1..Len(log_batch) |-> log_batch[i].entry]

\* conn.executemany(INSERT INTO logs ...), backend.py:332-335 and 361-364
InsertLogs(table, job_id, file_path, log_batch) ==
    LET idx == 1..Len(log_batch)
    IN  Upsert(table, BatchDict(idx, [i \in idx |-> LogRow(job_id, file_path, log_batch[i])]))

\* INSERT OR IGNORE of the class and service names, backend.py:338-347
InsertNames(metadata, job_id, log_batch) ==
    metadata \cup {<<job_id, "class", log_batch[i].entry.class>> : i \in 1..Len(log_batch)}
             \cup {<<job_id, "service", log_batch[i].entry.service>> : i \in 1..Len(log_batch)}

CurrentFile(task) == task.log_files[task.idx]

\* backend.py:289-336 and 360-365: lines are read up to a full batch or the end
\* of the file; the raw rows and the summary deltas are committed together by
\* the conn.commit() of update_summary_tables (backend.py:136)
process_log_file_batch(t) ==
    /\ CanRun(t) /\ tasks[t].pc = "in_file"
    /\ LET task == tasks[t]
           job_id == task.job_id
           read == ReadLines(StreamLines(CurrentFile(task)), task.line_idx, task.log_batch)
           log_batch == read[2]
           entries == Entries(log_batch)
       IN  /\ Len(log_batch) > 0
           /\ logs' = InsertLogs(logs, job_id, CurrentFile(task), log_batch)
           /\ class_level_counts' =
                Upsert(class_level_counts, class_level_batch(job_id, entries))
           /\ service_level_counts' =
                Upsert(service_level_counts, service_level_batch(job_id, entries))
           /\ timeline_counts' = Upsert(timeline_counts, timeline_batch(job_id, entries))
           /\ class_service_counts' =
                Upsert(class_service_counts, class_service_batch(job_id, entries))
           /\ tasks' = [tasks EXCEPT ![t].line_idx = read[1], ![t].log_batch = log_batch,
                           ![t].pc = IF Len(log_batch) >= BatchSize
                                     THEN "flush_meta" ELSE "final_meta"]
    /\ running' = t
    /\ UNCHANGED <<world, disk, clock, db_initialized, job_states, jobs, job_metadata,
                   starts, crashes, cut, early>>

\* process_log_file_eof taken with lines left to read or a batch left to flush
process_log_file_eof_early(t) ==
    /\ CanRun(t) /\ tasks[t].pc = "in_file"
    /\ LET task == tasks[t]
           read == ReadLines(StreamLines(CurrentFile(task)), task.line_idx, task.log_batch)
       IN  tasks' = [tasks EXCEPT ![t].line_idx = read[1], ![t].pc = "marker"]
    /\ running' = t
    /\ UNCHANGED <<world, disk, clock, db_initialized, job_states, store, starts, crashes, cut, early>>

\* backend.py:289 and 360: the lines end with nothing left to flush
process_log_file_eof(t) ==
    /\ CanRun(t) /\ tasks[t].pc = "in_file"
    /\ LET task == tasks[t]
           read == ReadLines(StreamLines(CurrentFile(task)), task.line_idx, task.log_batch)
       IN  /\ Len(read[2]) = 0
           /\ tasks' = [tasks EXCEPT ![t].line_idx = read[1], ![t].pc = "marker"]
    /\ running' = t
    /\ UNCHANGED <<world, disk, clock, db_initialized, job_states, store, starts, crashes, cut, early>>

\* backend.py:338-354: the names of a full batch are committed, then the task
\* yields at `await asyncio.sleep(0)`
process_log_file_yield(t) ==
    /\ CanRun(t) /\ tasks[t].pc = "flush_meta"
    /\ job_metadata' = InsertNames(job_metadata, tasks[t].job_id, tasks[t].log_batch)
    /\ tasks' = [tasks EXCEPT ![t].log_batch = <<>>, ![t].pc = "in_file"]
    /\ running' = 0
    /\ UNCHANGED <<world, disk, clock, db_initialized, job_states, jobs, logs, class_level_counts,
                   service_level_counts, timeline_counts, class_service_counts,
                   starts, crashes, cut, early>>

\* backend.py:367-378: the names of the last, partial batch are committed
process_log_file_rest(t) ==
    /\ CanRun(t) /\ tasks[t].pc = "final_meta"
    /\ job_metadata' = InsertNames(job_metadata, tasks[t].job_id, tasks[t].log_batch)
    /\ tasks' = [tasks EXCEPT ![t].log_batch = <<>>, ![t].pc = "marker"]
    /\ running' = t
    /\ UNCHANGED <<world, disk, clock, db_initialized, job_states, jobs, logs, class_level_counts,
                   service_level_counts, timeline_counts, class_service_counts,
                   starts, crashes, cut, early>>

Marker(job_id, file_path) == <<job_id, "processed_file", file_path>>

\* backend.py:380-385: the processed_file marker, a plain INSERT
process_log_file_marker(t) ==
    /\ CanRun(t) /\ tasks[t].pc = "marker"
    /\ Marker(tasks[t].job_id, CurrentFile(tasks[t])) \notin job_metadata
    /\ job_metadata' = job_metadata \cup {Marker(tasks[t].job_id, CurrentFile(tasks[t]))}
    /\ tasks' = [tasks EXCEPT ![t].pc = "file_done"]
    /\ running' = t
    /\ UNCHANGED <<world, disk, clock, db_initialized, job_states, jobs, logs, class_level_counts,
                   service_level_counts, timeline_counts, class_service_counts,
                   starts, crashes, cut, early>>

\* the marker is already there: UNIQUE(job_id, type, value) rejects the INSERT,
\* backend.py:390-392 re-raises and process_job ends in its except block
process_log_file_conflict(t) ==
    /\ CanRun(t) /\ tasks[t].pc = "marker"
    /\ Marker(tasks[t].job_id, CurrentFile(tasks[t])) \in job_metadata
    /\ Fail(t)
    /\ UNCHANGED <<world, disk, clock, db_initialized, data, starts, crashes, cut, early>>

\* process_job_counted with the increment of backend.py:516 lost: the row is
\* written, job_states is not
process_job_counted_row_only(t) ==
    /\ CanRun(t) /\ tasks[t].pc = "file_done"
    /\ LET job_id == tasks[t].job_id
       IN  IF job_id \notin DOMAIN job_states
           THEN Fail(t)
           ELSE /\ UNCHANGED job_states
                /\ jobs' = IF job_id \in DOMAIN jobs
                           THEN [jobs EXCEPT ![job_id].files_processed =
                                                job_states[job_id].files_processed + 1]
                           ELSE jobs
                /\ tasks' = [tasks EXCEPT ![t].pc = "file_loop", ![t].idx = @ + 1]
                /\ running' = t
    /\ UNCHANGED <<world, disk, clock, db_initialized, data, starts, crashes, cut, early>>

\* backend.py:516-523: the file is counted
process_job_counted(t) ==
    /\ CanRun(t) /\ tasks[t].pc = "file_done"
    /\ LET job_id == tasks[t].job_id
       IN  IF job_id \notin DOMAIN job_states
           THEN Fail(t)
           ELSE /\ job_states' = [job_states EXCEPT ![job_id].files_processed = @ + 1]
                /\ jobs' = IF job_id \in DOMAIN jobs
                           THEN [jobs EXCEPT ![job_id].files_processed =
                                                job_states[job_id].files_processed + 1]
                           ELSE jobs
                /\ tasks' = [tasks EXCEPT ![t].pc = "file_loop", ![t].idx = @ + 1]
                /\ running' = t
    /\ UNCHANGED <<world, disk, clock, db_initialized, data, starts, crashes, cut, early>>

TaskStep(t) ==
    \/ process_job_begin(t)
    \/ process_job_complete(t)
    \/ process_job_paused(t)
    \/ process_job_next_file(t)
    \/ process_log_file_batch(t)
    \/ process_log_file_eof(t)
    \/ process_log_file_yield(t)
    \/ process_log_file_rest(t)
    \/ process_log_file_marker(t)
    \/ process_log_file_conflict(t)
    \/ process_job_counted(t)

JobIds == {JobId(name, time) : name \in {"logsA", "empty", "missing", "cust", "ghost"},
                               time \in 0..MaxClock}

Next ==
    \/ startup_event
    \/ \E request \in Requests, now \in 0..MaxClock : now >= clock /\ start_job(request, now)
    \/ \E job_id \in JobIds : pause_job(job_id)
    \/ \E job_id \in JobIds : resume_job(job_id)
    \/ \E job_id \in JobIds : delete_job(job_id)
    \/ \E t \in 1..MaxTasks : TaskStep(t)
    \/ Crash

Spec == Init /\ [][Next]_vars

(***************************************************************************)
(* The world model: the control model without kills and deletes, in a      *)
(* world that changes under the job: a directory or a file of the local    *)
(* tree is removed, or the bucket service starts to fail and keeps         *)
(* failing (so that every retry fails too).                                *)
(***************************************************************************)
WorldChanges == Cardinality(gone) + (IF storage = "up" THEN 0 ELSE 1) + Len(faults)

remove_path(path) ==
    /\ WorldChanges < MaxWorldChanges
    /\ path \notin gone
    /\ gone' = gone \cup {path}
    /\ UNCHANGED <<storage, faults, parsed, generated, disk, clock, db_initialized, job_states, store, tasks, running,
                   starts, crashes, cut, early>>

storage_fails(mode) ==
    /\ WorldChanges < MaxWorldChanges
    /\ storage = "up"
    /\ storage' = mode
    /\ UNCHANGED <<gone, faults, parsed, generated, disk, clock, db_initialized, job_states, store, tasks, running,
                   starts, crashes, cut, early>>

NextWorld ==
    \/ startup_event
    \/ \E request \in Requests, now \in 0..MaxClock : now >= clock /\ start_job(request, now)
    \/ \E job_id \in JobIds : pause_job(job_id)
    \/ \E job_id \in JobIds : resume_job(job_id)
    \/ \E t \in 1..MaxTasks : TaskStep(t)
    \/ \E path \in {DirA, FA1, FA2} : remove_path(path)
    \/ \E mode \in StorageModes \ {"up"} : storage_fails(mode)

SpecWorld == Init /\ [][NextWorld]_vars

(***************************************************************************)
(* The fault model: the control model without kills and deletes, in which  *)
(* a statement on the store raises once (sqlite3.OperationalError:         *)
(* database is locked, disk I/O error), or the compressed stream of a file *)
(* becomes unreadable part-way.  Each such step appends its kind to        *)
(* `faults`.                                                               *)
(***************************************************************************)
CanFail(t) == CanRun(t) /\ WorldChanges < MaxWorldChanges

RECURSIVE ReadOne(_, _, _)
\* the for loop of backend.py:289-330 entered with a batch that the handler of
\* backend.py:357-358 left unflushed: up to the next line that is appended, or
\* the end of the lines: <<line index reached, batch, a line was appended>>
ReadOne(lines, line_idx, log_batch) ==
    IF line_idx >= Len(lines) THEN <<line_idx, log_batch, FALSE>>
    ELSE IF LineOk(lines[line_idx + 1])
    THEN <<line_idx + 1,
           Append(log_batch, [entry |-> ParseLine(lines[line_idx + 1]),
                              line_idx |-> line_idx]),
           TRUE>>
    ELSE ReadOne(lines, line_idx + 1, log_batch)

\* executemany and update_summary_tables up to its k-th table, backend.py:331-336
\* and 108-134 (k = 4: all of them)
FlushBatch(job_id, file_path, log_batch, k) ==
    LET entries == Entries(log_batch)
    IN  /\ logs' = InsertLogs(logs, job_id, file_path, log_batch)
        /\ class_level_counts' =
             IF k >= 1 THEN Upsert(class_level_counts, class_level_batch(job_id, entries))
             ELSE class_level_counts
        /\ service_level_counts' =
             IF k >= 2 THEN Upsert(service_level_counts, service_level_batch(job_id, entries))
             ELSE service_level_counts
        /\ timeline_counts' =
             IF k >= 3 THEN Upsert(timeline_counts, timeline_batch(job_id, entries))
             ELSE timeline_counts
        /\ class_service_counts' =
             IF k >= 4 THEN Upsert(class_service_counts, class_service_batch(job_id, entries))
             ELSE class_service_counts

\* conn.executemany(INSERT INTO logs ...) raises.  In the line loop the handler
\* of backend.py:357-358 logs it and the loop goes on with the batch unflushed;
\* after the loop (backend.py:361) it reaches the except block of process_job.
process_log_file_logs_fail(t) ==
    /\ CanFail(t) /\ tasks[t].pc = "in_file"
    /\ LET task == tasks[t]
           read == ReadLines(StreamLines(CurrentFile(task)), task.line_idx, task.log_batch)
       IN  /\ Len(read[2]) > 0
           /\ IF Len(read[2]) >= BatchSize
              THEN /\ tasks' = [tasks EXCEPT ![t].line_idx = read[1],
                                   ![t].log_batch = read[2], ![t].pc = "refill"]
                   /\ running' = t
                   /\ UNCHANGED <<job_states, jobs>>
              ELSE Fail(t)
    /\ faults' = Append(faults, "logs")
    /\ UNCHANGED <<gone, storage, parsed, generated, disk, clock, db_initialized, data, starts, crashes,
                   cut, early>>

\* a statement of update_summary_tables raises at its (k+1)-th table: the
\* function logs it and returns (backend.py:139-142) without its commit.
\* SQLite undoes the failing statement alone, or the whole open transaction:
\* the rows and the deltas executed so far, or nothing, are committed with
\* the names by backend.py:349 (378), and the task goes on
process_log_file_summary_fail(t) ==
    /\ CanFail(t) /\ tasks[t].pc = "in_file"
    /\ LET task == tasks[t]
           read == ReadLines(StreamLines(CurrentFile(task)), task.line_idx, task.log_batch)
       IN  /\ Len(read[2]) > 0
           /\ \/ \E k \in 0..3 : FlushBatch(task.job_id, CurrentFile(task), read[2], k)
              \/ UNCHANGED <<logs, class_level_counts, service_level_counts,
                             timeline_counts, class_service_counts>>
           /\ job_metadata' = InsertNames(job_metadata, task.job_id, read[2])
           /\ IF Len(read[2]) >= BatchSize
              THEN /\ tasks' = [tasks EXCEPT ![t].line_idx = read[1],
                                   ![t].log_batch = <<>>, ![t].pc = "in_file"]
                   /\ running' = 0
              ELSE /\ tasks' = [tasks EXCEPT ![t].line_idx = read[1],
                                   ![t].log_batch = <<>>, ![t].pc = "marker"]
                   /\ running' = t
    /\ faults' = Append(faults, "summary")
    /\ UNCHANGED <<gone, storage, parsed, generated, disk, clock, db_initialized, job_states, jobs, starts,
                   crashes, cut, early>>

\* an INSERT OR IGNORE of the names raises, after the commit of
\* update_summary_tables: in the line loop the batch is left as it is
\* (backend.py:350-358), after the loop the job fails
process_log_file_names_fail(t) ==
    /\ CanFail(t) /\ tasks[t].pc \in {"flush_meta", "final_meta"}
    /\ IF tasks[t].pc = "flush_meta"
       THEN /\ tasks' = [tasks EXCEPT ![t].pc = "refill"]
            /\ running' = t
            /\ UNCHANGED <<job_states, jobs>>
       ELSE Fail(t)
    /\ faults' = Append(faults, "names")
    /\ UNCHANGED <<gone, storage, parsed, generated, disk, clock, db_initialized, data, starts, crashes,
                   cut, early>>

\* the INSERT of the processed_file marker raises, backend.py:380-392
process_log_file_marker_fail(t) ==
    /\ CanFail(t) /\ tasks[t].pc = "marker"
    /\ Fail(t)
    /\ faults' = Append(faults, "marker")
    /\ UNCHANGED <<gone, storage, parsed, generated, disk, clock, db_initialized, data, starts, crashes,
                   cut, early>>

\* the line loop goes on with the unflushed batch: the next line that parses
\* makes the flush of backend.py:330-336 run on the whole batch again, the end
\* of the lines the flush of backend.py:360-365
process_log_file_refill(t) ==
    /\ CanRun(t) /\ tasks[t].pc = "refill"
    /\ LET task == tasks[t]
           read == ReadOne(StreamLines(CurrentFile(task)), task.line_idx, task.log_batch)
       IN  /\ FlushBatch(task.job_id, CurrentFile(task), read[2], 4)
           /\ tasks' = [tasks EXCEPT ![t].line_idx = read[1], ![t].log_batch = read[2],
                           ![t].pc = IF read[3] THEN "flush_meta" ELSE "final_meta"]
    /\ running' = t
    /\ UNCHANGED <<world, disk, clock, db_initialized, job_states, jobs, job_metadata,
                   starts, crashes, cut, early>>

\* the compressed stream breaks after p lines, before the batch is full.  The
\* generator of a bucket object ends (backend.py:260-265) and the lines read
\* are flushed as the last batch; the iteration of a local file raises at
\* backend.py:289, outside the per-line try, and the job fails
process_log_file_corrupt(t) ==
    /\ CanFail(t) /\ tasks[t].pc = "in_file"
    /\ LET task == tasks[t]
           lines == StreamLines(CurrentFile(task))
       IN  \E p \in task.line_idx..(Len(lines) - 1) :
              LET read == ReadLines(SubSeq(lines, 1, p), task.line_idx, task.log_batch)
              IN  /\ read[1] = p /\ Len(read[2]) < BatchSize
                  /\ IF ~IsBucketFile(CurrentFile(task))
                     THEN Fail(t) /\ UNCHANGED <<logs, class_level_counts,
                             service_level_counts, timeline_counts, class_service_counts>>
                     ELSE /\ IF Len(read[2]) > 0
                             THEN FlushBatch(task.job_id, CurrentFile(task), read[2], 4)
                             ELSE UNCHANGED <<logs, class_level_counts,
                                     service_level_counts, timeline_counts,
                                     class_service_counts>>
                          /\ tasks' = [tasks EXCEPT ![t].line_idx = p,
                                          ![t].log_batch = read[2],
                                          ![t].pc = IF Len(read[2]) > 0
                                                    THEN "final_meta" ELSE "marker"]
                          /\ running' = t
                          /\ UNCHANGED <<job_states, jobs>>
    /\ faults' = Append(faults, "stream")
    /\ UNCHANGED <<gone, storage, parsed, generated, disk, clock, db_initialized, job_metadata, starts,
                   crashes, cut, early>>

FaultStep(t) ==
    \/ process_log_file_logs_fail(t)
    \/ process_log_file_summary_fail(t)
    \/ process_log_file_names_fail(t)
    \/ process_log_file_marker_fail(t)
    \/ process_log_file_refill(t)
    \/ process_log_file_corrupt(t)

NextFault ==
    \/ startup_event
    \/ \E request \in Requests, now \in 0..MaxClock : now >= clock /\ start_job(request, now)
    \/ \E job_id \in JobIds : pause_job(job_id)
    \/ \E job_id \in JobIds : resume_job(job_id)
    \/ \E t \in 1..MaxTasks : TaskStep(t)
    \/ \E t \in 1..MaxTasks : FaultStep(t)

SpecFault == Init /\ [][NextFault]_vars

(***************************************************************************)
(* What an uninterrupted run of a job stores.                              *)
(*                                                                         *)
(* The statements below that the code violates are restricted to the runs  *)
(* in which no request is served between the creation of a task and its    *)
(* first step (~early): every violation shown passes through the yield of  *)
(* backend.py:354 alone.                                                   *)
(***************************************************************************)
RECURSIVE FileItems(_, _)
\* the parsed entries of the lines of a file from line index line_idx on
FileItems(lines, line_idx) ==
    IF line_idx >= Len(lines) THEN <<>>
    ELSE (IF LineOk(lines[line_idx + 1])
          THEN <<[entry |-> ParseLine(lines[line_idx + 1]), line_idx |-> line_idx]>>
          ELSE <<>>) \o FileItems(lines, line_idx + 1)

\* the value of the metadata entry of `type` of a job ("" if there is none)
MetaValue(job_id, type) ==
    IF \E m \in job_metadata : m[1] = job_id /\ m[2] = type
    THEN (CHOOSE m \in job_metadata : m[1] = job_id /\ m[2] = type)[3][1]
    ELSE ""

\* the files of the source of a job, as process_job enumerates them
SourceFiles(job_id) ==
    LET folder_path == jobs[job_id].folder_path
    IN  IF StartsWith(folder_path, S3Root)
        THEN ListAll(generate_s3_paths(folder_path[Len(folder_path)],
                                       MetaValue(job_id, "start_datetime"),
                                       MetaValue(job_id, "end_datetime")))
        ELSE WalkGz(folder_path)

RECURSIVE ItemsOfFiles(_)
ItemsOfFiles(files) ==
    IF files = <<>> THEN <<>>
    ELSE FileItems(disk[Head(files)], 0) \o ItemsOfFiles(Tail(files))

ExpectedLogs(job_id) ==
    LET files == SourceFiles(job_id)
        rows == UNION {{LogRow(job_id, files[i], item) :
                            item \in Range(FileItems(disk[files[i]], 0))} :
                       i \in 1..Len(files)}
    IN  [row \in rows |-> 1]

SameAsUninterrupted(job_id) ==
    LET entries == Entries(ItemsOfFiles(SourceFiles(job_id)))
    IN  /\ OfJob(logs, job_id) = ExpectedLogs(job_id)
        /\ OfJob(class_level_counts, job_id) = class_level_batch(job_id, entries)
        /\ OfJob(service_level_counts, job_id) = service_level_batch(job_id, entries)
        /\ OfJob(timeline_counts, job_id) = timeline_batch(job_id, entries)
        /\ OfJob(class_service_counts, job_id) = class_service_batch(job_id, entries)

Markers(job_id) == ProcessedFiles(job_metadata, job_id)

(***************************************************************************)
(* C1.  Resume after a kill: a job that was killed after some batches of a *)
(* file were committed and before the file's marker, and that is then run  *)
(* to COMPLETED, holds exactly the rows and the summary counts of an       *)
(* uninterrupted run.  (Stated as claimed; the code violates it.)          *)
(***************************************************************************)
C1_ResumeAfterCrashEquivalent ==
    ~early => \A p \in cut :
        (p[1] \in DOMAIN jobs /\ jobs[p[1]].status = "COMPLETED")
            => SameAsUninterrupted(p[1])

(***************************************************************************)
(* C2.  Ledger invariant: a processed_file marker of a job that exists     *)
(* implies that every record of the file is in logs exactly once, and,     *)
(* when every file of the job is marked, that the four summary tables hold *)
(* exactly the counts of those records.  (Stated as claimed; the code      *)
(* violates it.)                                                           *)
(***************************************************************************)
C2_LedgerInvariant ==
    ~early => \A job_id \in DOMAIN jobs :
        /\ \A file_path \in Markers(job_id) :
              LET items == FileItems(disk[file_path], 0)
              IN  \A i \in 1..Len(items) :
                      CountOf(logs, LogRow(job_id, file_path, items[i])) = 1
        /\ (Markers(job_id) # {} /\ Range(SourceFiles(job_id)) \subseteq Markers(job_id))
              => SameAsUninterrupted(job_id)

(***************************************************************************)
(* C3.  Single writer: at most one processing task of a job is active at   *)
(* any time.  (Stated as claimed; the code violates it.)                   *)
(***************************************************************************)
C3_SingleWriter ==
    ~early => \A t1, t2 \in 1..Len(tasks) :
        (Active(t1) /\ Active(t2) /\ tasks[t1].job_id = tasks[t2].job_id) => t1 = t2

(***************************************************************************)
(* C4.  Pause at a file boundary: in the step in which a task of a job     *)
(* stops because it saw PAUSED, files_processed in job_states and in the   *)
(* jobs row equals the number of processed_file markers of the job, and    *)
(* every file the task streamed has its marker (none is left in flight).   *)
(***************************************************************************)
StopsPaused(t) ==
    /\ t <= Len(tasks) /\ t <= Len(tasks')
    /\ tasks[t].pc # "done"
    /\ tasks'[t].pc = "done" /\ tasks'[t].exit = "paused"

C4_PauseAtFileBoundary ==
    [][\A t \in 1..MaxTasks :
            StopsPaused(t) =>
                LET job_id == tasks[t].job_id
                    marked == Cardinality({m \in job_metadata' :
                                              m[1] = job_id /\ m[2] = "processed_file"})
                IN  /\ job_states'[job_id].status = "PAUSED"
                    /\ job_states'[job_id].files_processed = marked
                    /\ job_id \in DOMAIN jobs' => jobs'[job_id].files_processed = marked
                    /\ job_id \in DOMAIN jobs' => jobs'[job_id].status = "PAUSED"
                    /\ \A i \in 1..(tasks[t].idx - 1) :
                          Marker(job_id, tasks[t].log_files[i]) \in job_metadata'
                    /\ tasks[t].pc = "file_loop"]_vars

\* a single task since the start of the process streamed a file, was paused
\* while it did, and stopped in PAUSED at the head of the next file
C4_Witness ==
    /\ crashes = 0 /\ Len(tasks) = 1
    /\ tasks[1].pc = "done" /\ tasks[1].exit = "paused"
    /\ tasks[1].job_id \in DOMAIN job_states
    /\ job_states[tasks[1].job_id].status = "PAUSED"
    /\ job_states[tasks[1].job_id].files_processed >= 1
    /\ Cardinality(Markers(tasks[1].job_id)) >= 1

(***************************************************************************)
(* C5.  Delete with an active task: once a job is unregistered and has no  *)
(* rows, no step that leaves it unregistered writes a row with its job_id  *)
(* into any table.  (Stated as claimed; the code violates it.)             *)
(***************************************************************************)
NoRows(job_id) ==
    /\ job_id \notin DOMAIN jobs
    /\ DOMAIN OfJob(logs, job_id) = {}
    /\ {m \in job_metadata : m[1] = job_id} = {}
    /\ DOMAIN OfJob(class_level_counts, job_id) = {}
    /\ DOMAIN OfJob(service_level_counts, job_id) = {}
    /\ DOMAIN OfJob(timeline_counts, job_id) = {}
    /\ DOMAIN OfJob(class_service_counts, job_id) = {}

C5_NoRowsAfterDelete ==
    [][~early' => \A job_id \in JobIds :
            (/\ job_id \notin DOMAIN job_states /\ job_id \notin DOMAIN job_states'
             /\ ActiveTasksOf(job_id) # {}
             /\ NoRows(job_id))
                => NoRows(job_id)']_vars

(***************************************************************************)
(* C6.  Terminal states are final: no pause request, resume request or     *)
(* task step changes a status that is COMPLETED or ERROR, in job_states or *)
(* in the jobs row.  (Stated as claimed; the code violates it.)            *)
(***************************************************************************)
Terminal == {"COMPLETED", "ERROR"}

ControlOrTaskStep == starts' = starts /\ crashes' = crashes /\ db_initialized

C6_TerminalIsFinal ==
    [][(ControlOrTaskStep /\ ~early') =>
          \A job_id \in JobIds :
              /\ (/\ job_id \in DOMAIN job_states /\ job_id \in DOMAIN job_states'
                  /\ job_states[job_id].status \in Terminal)
                    => job_states'[job_id].status = job_states[job_id].status
              /\ (/\ job_id \in DOMAIN jobs /\ job_id \in DOMAIN jobs'
                  /\ jobs[job_id].status \in Terminal)
                    => jobs'[job_id].status = jobs[job_id].status]_vars

(***************************************************************************)
(* C7.  Allowed transitions only: a job is registered by a start request   *)
(* in RUNNING, every later change of its status is RUNNING->PAUSED,        *)
(* PAUSED->RUNNING, RUNNING->ERROR or RUNNING->COMPLETED, and PAUSED is    *)
(* left only by a resume request.  (Stated as claimed; the code violates   *)
(* it.)                                                                    *)
(***************************************************************************)
Allowed == {<<"RUNNING", "PAUSED">>, <<"PAUSED", "RUNNING">>,
            <<"RUNNING", "ERROR">>, <<"RUNNING", "COMPLETED">>}

C7_AllowedTransitions ==
    [][~early' => \A job_id \in JobIds :
          /\ (/\ job_id \in DOMAIN job_states /\ job_id \in DOMAIN job_states'
              /\ job_states'[job_id].status # job_states[job_id].status)
                => /\ <<job_states[job_id].status, job_states'[job_id].status>> \in Allowed
                   /\ job_states[job_id].status = "PAUSED" => Len(tasks') >= Len(tasks)
          /\ (/\ job_id \notin DOMAIN job_states /\ job_id \in DOMAIN job_states'
              /\ starts' # starts)
                => job_states'[job_id].status = "RUNNING"]_vars

(***************************************************************************)
(* C8.  Resumable after a kill: after a restart, a job whose row says      *)
(* RUNNING, that has no task and still has files without a marker, is      *)
(* accepted by resume.  (Stated as claimed; the code violates it.)         *)
(***************************************************************************)
C8_ResumableAfterCrash ==
    ~early => \A job_id \in JobIds :
        (/\ crashes > 0 /\ db_initialized
         /\ job_id \in DOMAIN job_states /\ job_id \in DOMAIN jobs
         /\ jobs[job_id].status = "RUNNING"
         /\ ActiveTasksOf(job_id) = {}
         /\ Range(SourceFiles(job_id)) \ Markers(job_id) # {})
            => ResumeAccepted(job_id)

(***************************************************************************)
(* The data model: one job over the local tree, run without interruption,  *)
(* for every content of its first file made of at most MaxLines of the     *)
(* lines below.                                                            *)
(***************************************************************************)
LineTrailingDot == MkLine({"logtime", "level", "class"}, "INFO", <<"svcA", Dot>>, TsMillis)
LineLeadingDot == MkLine({"logtime", "level", "class"}, "ERROR", <<Dot, "ClassX">>, TsApache)
LineTwoDots == MkLine({"logtime", "class"}, "", <<"svcA", Dot, "pkg", Dot, "ClassY">>, TsSeconds)

DataLines == {LineFull, LineNoClass, LineJunkTs, LineTrailingDot, LineLeadingDot,
              LineTwoDots, BadLine}

InitData ==
    /\ \E content \in UNION {[1..n -> DataLines] : n \in 0..MaxLines} :
          disk = [f \in FileKeys |-> IF f = FA1 THEN content
                                     ELSE IF f = FA2 THEN Lines(<<LineJunkTs>>, 1)
                                     ELSE <<>>]
    /\ InitWorld
    /\ InitStore
    /\ InitProcess

DataStep(t) ==
    \/ process_job_begin(t)
    \/ process_job_complete(t)
    \/ process_job_next_file(t)
    \/ process_log_file_batch(t)
    \/ process_log_file_eof(t)
    \/ process_log_file_yield(t)
    \/ process_log_file_rest(t)
    \/ process_log_file_marker(t)
    \/ process_job_counted(t)

NextData ==
    \/ startup_event
    \/ start_job(LocalRequest(DirA), 0)
    \/ \E t \in 1..MaxTasks : DataStep(t)

SpecData == InitData /\ [][NextData]_vars

\* rows of logs of a job, with their copies
LogCount(job_id) == SumCounts(OfJob(logs, job_id))

Completed(job_id) == job_id \in DOMAIN jobs /\ jobs[job_id].status = "COMPLETED"

(***************************************************************************)
(* C9.  Round trip of the dimension summaries: for a COMPLETED job the     *)
(* counts of class_level_counts, of service_level_counts and of            *)
(* class_service_counts each add up to the number of logs rows of the job. *)
(* (Stated as claimed; the code violates it.)                              *)
(***************************************************************************)
C9_DimensionRoundTrip ==
    \A job_id \in JobIds :
        Completed(job_id) =>
            /\ SumCounts(OfJob(class_level_counts, job_id)) = LogCount(job_id)
            /\ SumCounts(OfJob(service_level_counts, job_id)) = LogCount(job_id)
            /\ SumCounts(OfJob(class_service_counts, job_id)) = LogCount(job_id)

(***************************************************************************)
(* C10.  Round trip of the timeline summary: for a COMPLETED job, each     *)
(* count of timeline_counts is the number of logs rows of the job of that  *)
(* hour and level whose timestamp has one of the three accepted formats    *)
(* (so the counts add up to the number of such rows); and in the step that *)
(* commits a batch, every record read whose timestamp has none of them     *)
(* gets a logs row with its raw timestamp, while timeline_counts grows by  *)
(* the number of records read whose timestamp has one.                     *)
(***************************************************************************)
AcceptedFormats == {FmtMillis, FmtSeconds, FmtApache}

\* the logs rows of a job whose timestamp an accepted format parses
ParseableRows(job_id) ==
    [row \in {r \in DOMAIN logs : r[1] = job_id /\ r[2].fmt \in AcceptedFormats} |->
        logs[row]]

TimelineMatchesLogs ==
    \A job_id \in JobIds :
        Completed(job_id) =>
            /\ SumCounts(OfJob(timeline_counts, job_id)) = SumCounts(ParseableRows(job_id))
            /\ \A k \in DOMAIN OfJob(timeline_counts, job_id) :
                  timeline_counts[k] =
                      SumCounts([row \in {r \in DOMAIN ParseableRows(job_id) :
                                            r[2].hour = k[2] /\ r[3] = k[3]} |-> logs[row]])

\* task t commits the rows of a batch in this step
CommitsBatch(t) ==
    /\ t <= Len(tasks) /\ t <= Len(tasks')
    /\ tasks[t].pc = "in_file" /\ tasks'[t].pc \in {"flush_meta", "final_meta"}

UnparseableStored(t) ==
    LET job_id == tasks[t].job_id
        file_path == CurrentFile(tasks[t])
        lines == disk[file_path]
        read == {i \in 1..Len(lines) :
                    /\ tasks[t].line_idx < i /\ i <= tasks'[t].line_idx
                    /\ lines[i].json}
        raw(i) == IF "logtime" \in lines[i].keys THEN lines[i].logtime ELSE EmptyTs
    IN  /\ \A i \in read :
              raw(i).fmt \notin AcceptedFormats =>
                  \E row \in DOMAIN logs' :
                      /\ row[1] = job_id /\ row[6] = file_path /\ row[7] = i - 1
                      /\ row[2] = raw(i)
                      /\ logs'[row] = CountOf(logs, row) + 1
        /\ SumCounts(timeline_counts') =
              SumCounts(timeline_counts)
                + Cardinality({i \in read : raw(i).fmt \in AcceptedFormats})

C10_TimelineRoundTrip ==
    /\ []TimelineMatchesLogs
    /\ [][\A t \in 1..MaxTasks : CommitsBatch(t) => UnparseableStored(t)]_vars

\* a COMPLETED job that stored a record with a timestamp of no accepted format
\* and a record with an accepted one
C10_Witness ==
    \E job_id \in JobIds :
        /\ Completed(job_id)
        /\ \E r \in DOMAIN OfJob(logs, job_id) : r[2].fmt = "junk"
        /\ SumCounts(ParseableRows(job_id)) >= 2
        /\ SumCounts(OfJob(timeline_counts, job_id)) >= 2

(***************************************************************************)
(* The claims on resume, on the responses of the handlers, on the counters *)
(* and on failures.                                                        *)
(***************************************************************************)
\* the four summary tables and logs
rows == <<logs, class_level_counts, service_level_counts, timeline_counts,
          class_service_counts>>

\* task t takes a step
Steps(t) == t <= Len(tasks) /\ t <= Len(tasks') /\ Active(t) /\ tasks'[t] # tasks[t]

\* a resume request is served for the job: the only PAUSED -> RUNNING of job_states
Resumes(job_id) ==
    /\ job_id \in DOMAIN job_states /\ job_id \in DOMAIN job_states'
    /\ job_states[job_id].status = "PAUSED" /\ job_states'[job_id].status = "RUNNING"

\* the counters of the job, in job_states and in its row, are equal
CountersMeet(job_id) ==
    /\ job_id \in DOMAIN job_states' /\ job_id \in DOMAIN jobs'
    /\ job_states'[job_id].files_processed = job_states'[job_id].total_files
    /\ jobs'[job_id].files_processed = jobs'[job_id].total_files

\* task t is at the head of its file loop, and the ledger it read holds every
\* file that its enumeration returned
LedgerComplete(t) ==
    /\ t <= Len(tasks)
    /\ tasks[t].pc = "file_loop" /\ tasks[t].idx = 1
    /\ tasks[t].log_files # <<>>
    /\ Range(tasks[t].log_files) \subseteq tasks[t].processed_files

(***************************************************************************)
(* C11.  Idempotent resume: a resume of a PAUSED job whose ledger holds    *)
(* every file of its source creates a task and writes no row; the task     *)
(* that begins on such a ledger writes no row and has files_processed =    *)
(* total_files; its next step streams no file, writes no row and ends the  *)
(* job COMPLETED with files_processed = total_files.                       *)
(***************************************************************************)
C11_IdempotentResume ==
    [][/\ \A job_id \in DOMAIN jobs :
            (/\ Resumes(job_id)
             /\ ~IsBucketFile(jobs[job_id].folder_path)
             /\ SourceFiles(job_id) # <<>>
             /\ Range(SourceFiles(job_id)) \subseteq Markers(job_id))
                => Len(tasks') = Len(tasks) + 1 /\ rows' = rows
       /\ \A t \in 1..MaxTasks :
            /\ (Steps(t) /\ LedgerComplete(t)')
                  => rows' = rows /\ CountersMeet(tasks[t].job_id)
            /\ (Steps(t) /\ LedgerComplete(t))
                  => /\ tasks'[t].pc = "done" /\ tasks'[t].exit = "completed"
                     /\ data' = data
                     /\ CountersMeet(tasks[t].job_id)
                     /\ jobs'[tasks[t].job_id].status = "COMPLETED"
                     /\ job_states'[tasks[t].job_id].status = "COMPLETED"]_vars

\* after a kill that left every file marked and the job RUNNING, the job was
\* paused and resumed, and the task of the resume, the only one since the
\* restart, has begun
C11_Witness ==
    \E t \in 1..Len(tasks) :
        /\ crashes = 1 /\ Len(tasks) = 1 /\ ~early
        /\ LedgerComplete(t)
        /\ tasks[t].job_id \in DOMAIN jobs
        /\ jobs[tasks[t].job_id].files_processed >= 1

(***************************************************************************)
(* C12.  Bucket resume with stored parameters: a resume of a PAUSED bucket *)
(* job whose start_datetime and end_datetime are in job_metadata is        *)
(* answered 200, creates a task of the job with the stored values and      *)
(* sets the row to RUNNING.  (Stated as claimed; the code violates it.)    *)
(***************************************************************************)
C12_BucketResumeWithParameters ==
    [][~early' => \A job_id \in DOMAIN jobs :
          (/\ Resumes(job_id)
           /\ IsBucketFile(jobs[job_id].folder_path)
           /\ MetaValue(job_id, "start_datetime") # ""
           /\ MetaValue(job_id, "end_datetime") # "")
              => /\ resume_job_response(job_id) = 200
                 /\ Len(tasks') = Len(tasks) + 1
                 /\ tasks'[Len(tasks')].job_id = job_id
                 /\ tasks'[Len(tasks')].start_datetime = MetaValue(job_id, "start_datetime")
                 /\ tasks'[Len(tasks')].end_datetime = MetaValue(job_id, "end_datetime")
                 /\ job_id \in DOMAIN jobs' /\ jobs'[job_id].status = "RUNNING"]_vars

Registered(job_id) == job_id \in DOMAIN job_states

PreconditionsHold ==
    \A job_id \in JobIds :
        /\ pause_job_response(job_id) = 200
              <=> (Registered(job_id) /\ job_states[job_id].status = "RUNNING")
        /\ resume_job_response(job_id) = 200
              => (Registered(job_id) /\ job_states[job_id].status = "PAUSED")
        /\ ~Registered(job_id)
              => /\ get_job_status_response(job_id) = 404
                 /\ pause_job_response(job_id) = 404
                 /\ resume_job_response(job_id) = 404
                 /\ delete_job_response(job_id) = 404

C14_ControlPreconditions ==
    /\ []PreconditionsHold
    /\ [][\A job_id \in JobIds :
            /\ (/\ Registered(job_id) /\ job_id \in DOMAIN job_states'
                /\ job_states[job_id].status # "PAUSED"
                /\ job_states'[job_id].status = "PAUSED")
                  => pause_job_response(job_id) = 200
            /\ Resumes(job_id) => resume_job_response(job_id) \notin {404, 400}
            /\ (Registered(job_id) /\ job_id \notin DOMAIN job_states' /\ crashes' = crashes)
                  => delete_job_response(job_id) = 200]_vars

\* a registered PAUSED job that pause refuses and resume accepts, next to a job
\* id that is not registered
C14_Witness ==
    /\ db_initialized
    /\ \E job_id \in JobIds :
          /\ Registered(job_id) /\ job_states[job_id].status = "PAUSED"
          /\ pause_job_response(job_id) = 400
          /\ resume_job_response(job_id) = 200
    /\ \E job_id \in JobIds : ~Registered(job_id) /\ delete_job_response(job_id) = 404

(***************************************************************************)
(* C15.  Counter bound: in every state files_processed <= total_files, in  *)
(* job_states and in the jobs row, also after a resume that enumerates a   *)
(* source whose files have changed.  (Stated as claimed, for the runs in   *)
(* which the tasks of a job run one after the other; the code violates     *)
(* it.)                                                                    *)
(***************************************************************************)
\* every task but the last one created had stopped in PAUSED: the tasks ran one
\* after the other
OneTaskAtATime ==
    \A t \in 1..(Len(tasks) - 1) : tasks[t].pc = "done" /\ tasks[t].exit = "paused"

C15_CounterBound ==
    OneTaskAtATime => \A job_id \in JobIds :
        /\ Registered(job_id)
              => job_states[job_id].files_processed <= job_states[job_id].total_files
        /\ job_id \in DOMAIN jobs
              => jobs[job_id].files_processed <= jobs[job_id].total_files

(***************************************************************************)
(* C16.  Monotonic progress: no step lowers files_processed of a job, in   *)
(* job_states or in the jobs row.  (Stated as claimed, for the runs in     *)
(* which the tasks of a job run one after the other; the code violates     *)
(* it.)                                                                    *)
(***************************************************************************)
C16_MonotonicProgress ==
    [][OneTaskAtATime' => \A job_id \in JobIds :
          /\ (Registered(job_id) /\ job_id \in DOMAIN job_states')
                => job_states'[job_id].files_processed >= job_states[job_id].files_processed
          /\ (job_id \in DOMAIN jobs /\ job_id \in DOMAIN jobs')
                => jobs'[job_id].files_processed >= jobs[job_id].files_processed]_vars

(***************************************************************************)
(* C17.  Counters frozen on ERROR: a step that moves a job to ERROR, in    *)
(* job_states or in the jobs row, leaves files_processed and total_files   *)
(* of the jobs row, the last committed values, as they are, and leaves     *)
(* job_states with those values.  (Stated as claimed, for the runs in      *)
(* which the tasks of a job run one after the other; the code violates     *)
(* it.)                                                                    *)
(***************************************************************************)
MovesToError(job_id) ==
    /\ job_id \in DOMAIN jobs /\ job_id \in DOMAIN jobs'
    /\ Registered(job_id) /\ job_id \in DOMAIN job_states'
    /\ \/ jobs[job_id].status # "ERROR" /\ jobs'[job_id].status = "ERROR"
       \/ job_states[job_id].status # "ERROR" /\ job_states'[job_id].status = "ERROR"

C17_CountersFrozenOnError ==
    [][OneTaskAtATime' => \A job_id \in JobIds :
          MovesToError(job_id) =>
              /\ jobs'[job_id].files_processed = jobs[job_id].files_processed
              /\ jobs'[job_id].total_files = jobs[job_id].total_files
              /\ job_states'[job_id].files_processed = jobs[job_id].files_processed
              /\ job_states'[job_id].total_files = jobs[job_id].total_files]_vars

(***************************************************************************)
(* The delete model: the process starts on the database that an earlier    *)
(* process left, with a finished job of the bucket folder in it, and       *)
(* serves one more start request next to it.  No kill.                     *)
(***************************************************************************)
OldJob == JobId("cust", 0)

\* the store after an uninterrupted run of
\* start_job(BucketRequest("cust", Hours[1], Hours[2]), 0): backend.py:631-655
\* (row and datetime entries), 331-349 (rows and names), 380-385 (markers),
\* 516-534 (counters and COMPLETED)
OldStore ==
    LET files == ListAll(generate_s3_paths("cust", Hours[1], Hours[2]))
        items == ItemsOfFiles(files)
        entries == Entries(items)
        markers == {Marker(OldJob, files[i]) : i \in 1..Len(files)}
        datetimes == { <<OldJob, "start_datetime", <<Hours[1]>> >>,
                       <<OldJob, "end_datetime", <<Hours[2]>> >> }
    IN  /\ jobs = Put(Empty, OldJob, JobRow(S3Root \o <<"cust">>, "COMPLETED",
                                            Len(files), Len(files)))
        /\ logs = [row \in UNION {{LogRow(OldJob, files[i], item) :
                                        item \in Range(FileItems(disk[files[i]], 0))} :
                                   i \in 1..Len(files)} |-> 1]
        /\ job_metadata = InsertNames(datetimes \cup markers, OldJob, items)
        /\ class_level_counts = class_level_batch(OldJob, entries)
        /\ service_level_counts = service_level_batch(OldJob, entries)
        /\ timeline_counts = timeline_batch(OldJob, entries)
        /\ class_service_counts = class_service_batch(OldJob, entries)

InitDelete ==
    /\ \E c1, c2 \in ControlContents :
          disk = [f \in FileKeys |->
                    IF f = FA1 THEN c1
                    ELSE IF f = FA2 THEN c2
                    ELSE IF f = K1
                    THEN Lines(<<LineFull, LineNoClass, BadLine, LineJunkTs>>, BatchSize + 2)
                    ELSE Lines(<<LineFull>>, 1)]
    /\ InitWorld
    /\ OldStore
    /\ InitProcess

NextDelete ==
    \/ startup_event
    \/ \E request \in Requests, now \in 0..MaxClock : now >= clock /\ start_job(request, now)
    \/ \E job_id \in JobIds : pause_job(job_id)
    \/ \E job_id \in JobIds : resume_job(job_id)
    \/ \E job_id \in JobIds : delete_job(job_id)
    \/ \E t \in 1..MaxTasks : TaskStep(t)

SpecDelete == InitDelete /\ [][NextDelete]_vars

(***************************************************************************)
(* C18.  Delete cascades: a delete request that is accepted for a job with *)
(* no active task leaves no row of the job in jobs, logs, job_metadata and *)
(* the four summary tables, leaves the job out of job_states, so that a    *)
(* status request answers 404, and changes no row and no job_states entry  *)
(* of any other job.                                                       *)
(***************************************************************************)
\* a delete request is served for the job: the only step of a live process that
\* takes a job out of job_states
Deletes(job_id) ==
    /\ delete_job_response(job_id) = 200
    /\ db_initialized /\ db_initialized'
    /\ job_id \notin DOMAIN job_states'

\* what the store and job_states hold for a job
Holding(job_id) ==
    <<IF job_id \in DOMAIN jobs THEN <<jobs[job_id]>> ELSE <<>>,
      OfJob(logs, job_id), {m \in job_metadata : m[1] = job_id},
      OfJob(class_level_counts, job_id), OfJob(service_level_counts, job_id),
      OfJob(timeline_counts, job_id), OfJob(class_service_counts, job_id),
      IF job_id \in DOMAIN job_states THEN <<job_states[job_id]>> ELSE <<>> >>

C18_DeleteCascades ==
    [][\A job_id \in JobIds :
          (Deletes(job_id) /\ ActiveTasksOf(job_id) = {}) =>
              /\ NoRows(job_id)'
              /\ ~Registered(job_id)'
              /\ get_job_status_response(job_id)' = 404
              /\ \A other \in JobIds \ {job_id} : Holding(other)' = Holding(other)]_vars

\* the job started by this process ran to COMPLETED
\* and was then deleted, next to the rows of the earlier job
C18_Witness ==
    /\ Len(tasks) = 1 /\ tasks[1].pc = "done" /\ tasks[1].exit = "completed"
    /\ tasks[1].job_id # OldJob
    /\ ~Registered(tasks[1].job_id) /\ NoRows(tasks[1].job_id)
    /\ Registered(OldJob) /\ OldJob \in DOMAIN jobs
    /\ DOMAIN OfJob(logs, OldJob) # {}
    /\ DOMAIN OfJob(timeline_counts, OldJob) # {}

(***************************************************************************)
(* C19.  Enumeration outcomes: the first step of a task of a job whose     *)
(* local root is not a directory, or whose bucket folder does not exist,   *)
(* ends the task with the job in ERROR and nothing stored for a file; the  *)
(* first step of a task of a job whose root is there and holds no .gz file *)
(* ends the task with the job in COMPLETED, total_files = 0, and nothing   *)
(* stored for a file.                                                      *)
(***************************************************************************)
\* the root of the task's source is not there
RootMissing(task) ==
    IF Len(task.folder_path) > 0
    THEN task.folder_path \notin ({DirA, DirEmpty} \ gone)
    ELSE \A i \in 1..Len(BucketKeys) : BucketKeys[i][1] # task.customer_folder

\* the root is there and no .gz file is under it (local), or under the hours
\* of the request (bucket)
NoGzFiles(task) ==
    /\ ~RootMissing(task)
    /\ IF Len(task.folder_path) > 0
       THEN \A f \in {FA1, FA2} \ gone :
                ~(StartsWith(f, task.folder_path) /\ EndsWithGz(Basename(f)))
       ELSE \A i \in 1..Len(BucketKeys) :
                ~(/\ BucketKeys[i][1] = task.customer_folder
                  /\ ParseHour(BucketKeys[i][2]) >= ParseHour(task.start_datetime)
                  /\ ParseHour(BucketKeys[i][2]) <= ParseHour(task.end_datetime)
                  /\ EndsWithGz(Basename(BucketKeys[i])))

\* the job of task t is in `status` after the step, in job_states and in its row
EndsIn(t, status) ==
    /\ tasks'[t].pc = "done"
    /\ job_states'[tasks[t].job_id].status = status
    /\ jobs'[tasks[t].job_id].status = status
    /\ data' = data

C19_EnumerationOutcomes ==
    [][\A t \in 1..MaxTasks :
          (/\ Steps(t) /\ tasks[t].pc = "created" /\ storage = "up"
           /\ Registered(tasks[t].job_id) /\ tasks[t].job_id \in DOMAIN jobs) =>
              /\ RootMissing(tasks[t]) => EndsIn(t, "ERROR")
              /\ NoGzFiles(tasks[t]) =>
                    /\ EndsIn(t, "COMPLETED")
                    /\ job_states'[tasks[t].job_id].total_files = 0
                    /\ jobs'[tasks[t].job_id].total_files = 0
                    /\ jobs'[tasks[t].job_id].files_processed = 0]_vars

\* the task of a job on a path that is not a directory has ended, with the job
\* in ERROR and nothing stored
C19_Witness ==
    /\ Len(tasks) = 1 /\ tasks[1].pc = "done" /\ tasks[1].exit = "error"
    /\ Registered(tasks[1].job_id) /\ tasks[1].job_id \in DOMAIN jobs
    /\ jobs[tasks[1].job_id].folder_path = NotADir
    /\ jobs[tasks[1].job_id].status = "ERROR"
    /\ job_states[tasks[1].job_id].status = "ERROR"
    /\ logs = Empty /\ job_metadata = {}

(***************************************************************************)
(* C20.  Storage failure escalation: a bucket job whose listing or whose   *)
(* retrieval of an object fails for good ends in ERROR.  In every state, a *)
(* bucket file with a processed_file marker has every parsable line of the *)
(* object in logs, and a bucket job in COMPLETED has a marker for every    *)
(* .gz object under the prefixes of its hours.  (Stated as claimed; the    *)
(* code violates it.)                                                      *)
(***************************************************************************)
IsBucketJob(job_id) == job_id \in DOMAIN jobs /\ StartsWith(jobs[job_id].folder_path, S3Root)

\* the .gz objects under the prefixes of the job's hours, as the bucket holds
\* them
Listing(job_id) ==
    LET folder_path == jobs[job_id].folder_path
        s3_paths == generate_s3_paths(folder_path[Len(folder_path)],
                                      MetaValue(job_id, "start_datetime"),
                                      MetaValue(job_id, "end_datetime"))
    IN  UNION {{S3Root \o key : key \in Range(list_s3_files(s3_paths[i]))} :
               i \in 1..Len(s3_paths)}

\* every parsable line of the object is a row of logs of the job
Retrieved(job_id, file_path) ==
    \A item \in Range(FileItems(disk[file_path], 0)) :
        LogRow(job_id, file_path, item) \in DOMAIN logs

C20_StorageFailureEscalation ==
    \A job_id \in JobIds :
        /\ \A file_path \in {f \in Markers(job_id) : IsBucketFile(f)} :
              Retrieved(job_id, file_path)
        /\ (IsBucketJob(job_id) /\ jobs[job_id].status = "COMPLETED")
              => Listing(job_id) \subseteq Markers(job_id)

(***************************************************************************)
(* C21.  Store failure is fatal: a step of a task in which a write of a    *)
(* batch raises (the insert of the raw rows, an upsert of a summary table, *)
(* an insert of a name, the insert of the marker) ends the task with the   *)
(* job in ERROR, in job_states and in its row, and commits nothing of the  *)
(* batch.  (Stated as claimed; the code violates it.)                      *)
(***************************************************************************)
StoreFaults == {"logs", "summary", "names", "marker"}

\* the step is one in which a statement on the store raised
FailedWrite ==
    /\ Len(faults') = Len(faults) + 1
    /\ faults'[Len(faults')] \in StoreFaults

C21_StoreFailureFatal ==
    [][\A t \in 1..MaxTasks :
          (/\ Steps(t) /\ FailedWrite
           /\ Registered(tasks[t].job_id) /\ tasks[t].job_id \in DOMAIN jobs) =>
              /\ tasks'[t].pc = "done"
              /\ job_states'[tasks[t].job_id].status = "ERROR"
              /\ jobs'[tasks[t].job_id].status = "ERROR"
              /\ data' = data]_vars

(***************************************************************************)
(* C22.  Malformed lines are absorbed: a file with a processed_file marker *)
(* has exactly one logs row for each of its lines that is JSON, with the   *)
(* index of the line, and none for a line that is not; a COMPLETED job has *)
(* the marker of the file; and no step of a task moves the job to ERROR.   *)
(***************************************************************************)
\* the rows of logs that the lines of the file that are JSON give
WellFormedRows(job_id, file_path) ==
    {LogRow(job_id, file_path, [entry |-> ParseLine(disk[file_path][i]), line_idx |-> i - 1]) :
        i \in {n \in 1..Len(disk[file_path]) : disk[file_path][n].json}}

\* the rows of logs of the file, with their copies
FileRows(job_id, file_path) ==
    [row \in {r \in DOMAIN logs : r[1] = job_id /\ r[6] = file_path} |-> logs[row]]

LinesAbsorbed ==
    \A job_id \in JobIds :
        /\ Completed(job_id) => Marker(job_id, FA1) \in job_metadata
        /\ Marker(job_id, FA1) \in job_metadata
              => FileRows(job_id, FA1) = [row \in WellFormedRows(job_id, FA1) |-> 1]

StreamBreaks ==
    /\ Len(faults') = Len(faults) + 1
    /\ faults'[Len(faults')] = "stream"

C23_CorruptStreamEndsFile ==
    [][\A t \in 1..MaxTasks :
          (/\ Steps(t) /\ StreamBreaks
           /\ Registered(tasks[t].job_id) /\ tasks[t].job_id \in DOMAIN jobs) =>
              /\ tasks'[t].pc # "done"
              /\ ~MovesToError(tasks[t].job_id)
              /\ \A i \in 1..tasks'[t].line_idx :
                    disk[CurrentFile(tasks[t])][i].json =>
                        \E row \in DOMAIN logs' :
                            /\ row[1] = tasks[t].job_id
                            /\ row[6] = CurrentFile(tasks[t]) /\ row[7] = i - 1]_vars

(***************************************************************************)
(* The parser model: a line is handed to the per-line parser of            *)
(* process_log_file and to LogProcessor.parse_log_line.                    *)
(***************************************************************************)
\* the lines handed to the parsers: every set of keys, levels in and out of
\* the configured set, class fields with no, one and several dots
ParserLines ==
    {BadLine} \cup
    {MkLine(keys, level, class, logtime) :
        keys \in SUBSET {"logtime", "level", "class"},
        level \in {"ERROR", "INFO", "TRACE", ""},
        class \in {<<>>, <<"NoDot">>, <<"svcA", Dot, "ClassX">>, <<Dot, "ClassX">>,
                   <<"svcA", Dot>>, <<"svcA", Dot, "pkg", Dot, "ClassY">>},
        logtime \in {EmptyTs, TsSeconds, TsJunk}}

parse(line) ==
    /\ parsed' = [line |-> line,
                  ingestion |-> IF LineOk(line) THEN <<ParseLine(line)>> ELSE <<>>,
                  library |-> parse_log_line(line)]
    /\ UNCHANGED <<gone, storage, faults, generated, disk, clock, db_initialized, job_states, store,
                   tasks, running, starts, crashes, cut, early>>

NextParse == \E line \in ParserLines : parse(line)

SpecParse == Init /\ [][NextParse]_vars

(***************************************************************************)
(* C24.  Record parsing: for a line that is JSON, each of the two parsers  *)
(* returns the level of the line if the line has one of the configured     *)
(* set, and UNKNOWN otherwise; for a class field with a '.', the service   *)
(* is the text before the first '.' and the class the text after it; with  *)
(* no class field, or no '.' in it, both are 'Unknown'.  (Stated as        *)
(* claimed; the code violates it.)                                         *)
(***************************************************************************)
ParsedAsClaimed(line, entry) ==
    /\ entry.level = IF "level" \in line.keys /\ line.level \in valid_levels
                     THEN line.level ELSE "UNKNOWN"
    /\ IF "class" \in line.keys /\ \E i \in 1..Len(line.class) : line.class[i] = Dot
       THEN /\ entry.service \o <<Dot>> \o entry.class = line.class
            /\ \A i \in 1..Len(entry.service) : entry.service[i] # Dot
       ELSE entry.service = Unknown /\ entry.class = Unknown

C24_RecordParsing ==
    parsed.line.json =>
        /\ Len(parsed.ingestion) = 1 /\ ParsedAsClaimed(parsed.line, parsed.ingestion[1])
        /\ Len(parsed.library) = 1 /\ ParsedAsClaimed(parsed.line, parsed.library[1])

(***************************************************************************)
(* C25.  Additive per-key counts: for a COMPLETED job and each summary     *)
(* table, every key that a stored record has is a row of the table, and    *)
(* the count of every row is the number of stored records with its key,    *)
(* however the records were split over batches and files.  The key of a    *)
(* record in timeline_counts is its hour and level, for a record whose     *)
(* timestamp has an accepted format.  (Stated as claimed; the code         *)
(* violates it.)                                                           *)
(***************************************************************************)
\* the stored records of the job that `pick` holds, with their copies
Records(job_id, pick) ==
    SumCounts([row \in {r \in DOMAIN OfJob(logs, job_id) : pick[r]} |-> logs[row]])

\* table holds, for every key that occurs, the number of records with the key
CountsRecords(job_id, table, key, keyed) ==
    LET all == DOMAIN OfJob(logs, job_id)
    IN  /\ \A r \in all : keyed[r] => key[r] \in DOMAIN table
        /\ \A k \in DOMAIN OfJob(table, job_id) :
              table[k] = Records(job_id, [r \in all |-> keyed[r] /\ key[r] = k])

C25_AdditiveCounts ==
    \A job_id \in JobIds :
        Completed(job_id) =>
            LET all == DOMAIN OfJob(logs, job_id)
                always == [r \in all |-> TRUE]
            IN  /\ CountsRecords(job_id, class_level_counts,
                                 [r \in all |-> <<job_id, r[4], r[3]>>], always)
                /\ CountsRecords(job_id, service_level_counts,
                                 [r \in all |-> <<job_id, r[5], r[3]>>], always)
                /\ CountsRecords(job_id, class_service_counts,
                                 [r \in all |-> <<job_id, r[4], r[5]>>], always)
                /\ CountsRecords(job_id, timeline_counts,
                                 [r \in all |-> <<job_id, r[2].hour, r[3]>>],
                                 [r \in all |-> r[2].fmt \in AcceptedFormats])

(***************************************************************************)
(* C26.  Status matches the durable state: whenever a request can be       *)
(* served (the process is up and no task holds the event loop), the        *)
(* snapshot that get_job_status returns for a job has the status,          *)
(* files_processed and total_files of the jobs row of the job.  (Stated as *)
(* claimed; the code violates it.)                                         *)
(***************************************************************************)
C26_StatusMatchesRow ==
    (db_initialized /\ LoopFree /\ ~early) =>
        \A job_id \in JobIds :
            get_job_status_response(job_id) = 200 =>
                /\ job_id \in DOMAIN jobs
                /\ job_states[job_id].status = jobs[job_id].status
                /\ job_states[job_id].files_processed = jobs[job_id].files_processed
                /\ job_states[job_id].total_files = jobs[job_id].total_files

(***************************************************************************)
(* C27.  Marker after data: the step of a task that commits the            *)
(* processed_file marker of a file is taken with every line of the file    *)
(* read and no batch left to flush; and in every state of an               *)
(* uninterrupted job, a file that has its marker has the row of each of    *)
(* its lines, and the summary deltas of these rows, committed.             *)
(***************************************************************************)
\* task t commits the marker of its current file in this step
CommitsMarker(t) ==
    /\ Steps(t)
    /\ tasks[t].pc \in {"in_file", "flush_meta", "final_meta", "marker", "refill"}
    /\ Marker(tasks[t].job_id, CurrentFile(tasks[t])) \notin job_metadata
    /\ Marker(tasks[t].job_id, CurrentFile(tasks[t])) \in job_metadata'

\* the entries of the files of `files`, in order, that have their marker
MarkedItems(job_id, files) ==
    ItemsOfFiles(Filter(files, {f \in Range(files) : Marker(job_id, f) \in job_metadata}))

MarkedFilesStored ==
    \A job_id \in DOMAIN jobs :
        LET files == SourceFiles(job_id)
            entries == Entries(MarkedItems(job_id, files))
            marked == {f \in Range(files) : Marker(job_id, f) \in job_metadata}
            covers(table, delta) == \A k \in DOMAIN delta : CountOf(table, k) >= delta[k]
        IN  /\ \A f \in marked : WellFormedRows(job_id, f) \subseteq DOMAIN logs
            /\ covers(class_level_counts, class_level_batch(job_id, entries))
            /\ covers(service_level_counts, service_level_batch(job_id, entries))
            /\ covers(timeline_counts, timeline_batch(job_id, entries))
            /\ covers(class_service_counts, class_service_batch(job_id, entries))

C27_MarkerAfterData ==
    /\ []MarkedFilesStored
    /\ [][\A t \in 1..MaxTasks :
             CommitsMarker(t) =>
                 /\ tasks[t].pc = "marker"
                 /\ tasks[t].log_batch = <<>>
                 /\ tasks[t].line_idx = Len(disk[CurrentFile(tasks[t])])]_vars

\* the marker of a file with a full batch and a last, partial batch is there
C27_Witness ==
    \E job_id \in DOMAIN jobs :
        /\ Marker(job_id, FA1) \in job_metadata
        /\ Cardinality(WellFormedRows(job_id, FA1)) > BatchSize
        /\ SumCounts(FileRows(job_id, FA1)) = Cardinality(WellFormedRows(job_id, FA1))

(***************************************************************************)
(* C28.  Atomic flush: in every state (each is a committed state: a step   *)
(* ends at a commit), each summary table of a job holds, for every key,    *)
(* the number of raw rows of the job that count for the key, so that no    *)
(* batch has its raw rows committed without its summary deltas or the      *)
(* deltas without the rows.  A row counts for a table as                   *)
(* update_summary_tables decides (backend.py:76-106).  (Stated as claimed; *)
(* the code violates it.)                                                  *)
(***************************************************************************)
C28_AtomicFlush ==
    \A job_id \in JobIds :
        LET all == DOMAIN OfJob(logs, job_id)
        IN  /\ CountsRecords(job_id, class_level_counts,
                             [r \in all |-> <<job_id, r[4], r[3]>>],
                             [r \in all |-> Truthy(r[4]) /\ r[3] # ""])
            /\ CountsRecords(job_id, service_level_counts,
                             [r \in all |-> <<job_id, r[5], r[3]>>],
                             [r \in all |-> Truthy(r[5]) /\ r[3] # ""])
            /\ CountsRecords(job_id, class_service_counts,
                             [r \in all |-> <<job_id, r[4], r[5]>>],
                             [r \in all |-> Truthy(r[4]) /\ Truthy(r[5])])
            /\ CountsRecords(job_id, timeline_counts,
                             [r \in all |-> <<job_id, r[2].hour, r[3]>>],
                             [r \in all |-> r[2].fmt \in AcceptedFormats /\ r[3] # ""])

(***************************************************************************)
(* C29.  Bounded retries: validation, listing and retrieval are each       *)
(* attempted at most 3 times; and while the first attempt of every call    *)
(* fails and a later one succeeds, a bucket job stores what it stores with *)
(* no failure: the files its task enumerated are the .gz objects of its    *)
(* hours, and a file with a processed_file marker has the row of every     *)
(* line of the object.  (Stated as claimed; the code violates it.)         *)
(***************************************************************************)
C29_BoundedRetries ==
    /\ \A call \in {"validate", "list"} : Attempts(call) <= 3
    /\ GeneratorAttempts <= 3
    /\ storage = "flaky" =>
          \A job_id \in JobIds :
              IsBucketJob(job_id) =>
                  /\ \A t \in 1..Len(tasks) :
                        (tasks[t].job_id = job_id /\ tasks[t].pc \notin {"created", "done"})
                            => Range(tasks[t].log_files) = Listing(job_id)
                  /\ \A file_path \in Markers(job_id) : Retrieved(job_id, file_path)

(***************************************************************************)
(* C30.  Completion implies full coverage: whenever a job is COMPLETED,    *)
(* files_processed = total_files, in job_states and in the jobs row; and   *)
(* the step of a task that moves its job to COMPLETED leaves a             *)
(* processed_file marker for every file of the task's enumeration.         *)
(* (Stated as claimed, for the runs in which the tasks of a job run one    *)
(* after the other; the code violates it.)                                 *)
(***************************************************************************)
\* the counters of a COMPLETED job agree
FullCount ==
    \A job_id \in JobIds :
        /\ Completed(job_id)
              => jobs[job_id].files_processed = jobs[job_id].total_files
        /\ (Registered(job_id) /\ job_states[job_id].status = "COMPLETED")
              => job_states[job_id].files_processed = job_states[job_id].total_files

\* the step of task t moves its job to COMPLETED
Completes(t) ==
    /\ Steps(t)
    /\ ~Completed(tasks[t].job_id)
    /\ Completed(tasks[t].job_id)'

C30_CompletionCoverage ==
    /\ [](OneTaskAtATime => FullCount)
    /\ [][\A t \in 1..MaxTasks :
             Completes(t) => Range(tasks[t].log_files) \subseteq Markers(tasks[t].job_id)']_vars

(***************************************************************************)
(* C31.  A rejected control request changes nothing: a pause_job or        *)
(* resume_job that answers an error leaves job_states, the jobs row and    *)
(* the tasks as they were.  (Stated as claimed; the code violates it.)     *)
(***************************************************************************)
\* the step is a call of resume_job on job_id that is answered with an error
ResumeRejected(job_id) ==
    /\ db_initialized /\ LoopFree
    /\ resume_job_response(job_id) # 200
    /\ \/ resume_job(job_id)
       \/ (~ResumeAccepted(job_id) /\ UNCHANGED vars)

\* the step is a call of pause_job on job_id that is answered with an error
PauseRejected(job_id) ==
    /\ db_initialized /\ LoopFree
    /\ pause_job_response(job_id) # 200
    /\ UNCHANGED vars

C31_RejectedRequestChangesNothing ==
    [][\A job_id \in JobIds :
          (~early' /\ (ResumeRejected(job_id) \/ PauseRejected(job_id))) =>
              /\ job_states' = job_states
              /\ jobs' = jobs
              /\ tasks' = tasks]_vars

(***************************************************************************)
(* C32.  Pause takes effect within one file: while job_states holds PAUSED *)
(* for a job (a pause was served and no resume since), a step of the task  *)
(* of the job writes rows and a marker only for the file it has in flight, *)
(* does not move to another file, and at the head of the file loop it      *)
(* ends.  Stated for the runs in which the tasks of a job run one after    *)
(* the other.                                                              *)
(***************************************************************************)
\* the rows of logs that the step adds
NewRows == {r \in DOMAIN logs' : r \notin DOMAIN logs \/ logs'[r] > logs[r]}

\* the processed_file markers that the step adds
NewMarkers == {m \in job_metadata' \ job_metadata : m[2] = "processed_file"}

\* task t takes a step while its job is PAUSED in job_states
StepsPaused(t) ==
    /\ Steps(t)
    /\ OneTaskAtATime
    /\ Registered(tasks[t].job_id)
    /\ job_states[tasks[t].job_id].status = "PAUSED"

C32_PauseWithinOneFile ==
    [][\A t \in 1..MaxTasks :
          StepsPaused(t) =>
              LET task == tasks[t]
                  InFlight == task.pc \in {"in_file", "flush_meta", "final_meta", "marker"}
              IN  /\ task.pc = "file_loop" => tasks'[t].pc = "done"
                  /\ tasks'[t].pc \in {"in_file", "flush_meta", "final_meta", "marker"}
                        => (InFlight /\ CurrentFile(tasks'[t]) = CurrentFile(task))
                  /\ NewRows # {} =>
                        (InFlight /\ \A r \in NewRows : r[6] = CurrentFile(task))
                  /\ NewMarkers # {} =>
                        (InFlight /\ NewMarkers = {Marker(task.job_id, CurrentFile(task))})]_vars

\* the only task was paused while it streamed a file and has written the
\* marker of that file; the file is not counted yet
C32_Witness ==
    /\ Len(tasks) = 1 /\ tasks[1].pc = "file_done"
    /\ Registered(tasks[1].job_id)
    /\ job_states[tasks[1].job_id].status = "PAUSED"
    /\ Marker(tasks[1].job_id, CurrentFile(tasks[1])) \in job_metadata
    /\ Pending([tasks[1] EXCEPT !.idx = @ + 1]) # {}

(***************************************************************************)
(* C33.  Unique job ids: a start request that is served gives its job an   *)
(* id that no registered job and no jobs row has, also at the clock second *)
(* of an earlier start of the same source, and leaves the job_states entry *)
(* and the row of every existing job as they were.  (Stated as claimed;    *)
(* the code violates it.)                                                  *)
(***************************************************************************)
C33_UniqueJobIds ==
    [][\A request \in Requests, now \in 0..MaxClock :
          (now >= clock /\ start_job(request, now)) =>
              /\ RequestJobId(request, now) \notin (DOMAIN job_states) \cup (DOMAIN jobs)
              /\ \A job_id \in DOMAIN job_states :
                    job_id \in DOMAIN job_states' /\ job_states'[job_id] = job_states[job_id]
              /\ \A job_id \in DOMAIN jobs :
                    job_id \in DOMAIN jobs' /\ jobs'[job_id] = jobs[job_id]]_vars

(***************************************************************************)
(* C34.  Metadata entries form a set: a step that inserts into             *)
(* job_metadata entries that are all present already (class and service    *)
(* names of a batch, a processed_file marker) leaves the table unchanged   *)
(* and raises no error: the task goes on.  (Stated as claimed; the code    *)
(* violates it.)                                                           *)
(***************************************************************************)
\* task t is about to insert the names of its batch, all of them present
NamesPresent(t) ==
    /\ tasks[t].pc \in {"flush_meta", "final_meta"}
    /\ InsertNames({}, tasks[t].job_id, tasks[t].log_batch) \subseteq job_metadata

\* task t is about to insert the marker of its file, which is present
MarkerPresent(t) ==
    /\ tasks[t].pc = "marker"
    /\ Marker(tasks[t].job_id, CurrentFile(tasks[t])) \in job_metadata

C34_MetadataIsASet ==
    [][\A t \in 1..MaxTasks :
          (Steps(t) /\ ~early /\ (NamesPresent(t) \/ MarkerPresent(t))) =>
              /\ job_metadata' = job_metadata
              /\ tasks'[t].pc # "done"
              /\ job_states' = job_states /\ jobs' = jobs]_vars

(***************************************************************************)
(* C35.  Processing order: a task opens the files of its enumeration in    *)
(* the order of the enumeration, skipping the files of the ledger, and     *)
(* writes their processed_file markers in that order: when it opens a file *)
(* or writes the marker of a file, every earlier file of the enumeration   *)
(* has its marker.                                                         *)
(***************************************************************************)
\* every file of the enumeration of task t before position idx has its marker
EarlierMarked(t, idx) ==
    \A i \in 1..(idx - 1) :
        Marker(tasks[t].job_id, tasks[t].log_files[i]) \in job_metadata

C35_ProcessingOrder ==
    [][\A t \in 1..MaxTasks :
          Steps(t) =>
              /\ tasks[t].pc # "created" =>
                    /\ tasks'[t].pc # "done" => tasks'[t].log_files = tasks[t].log_files
                    /\ tasks'[t].pc # "done" => tasks'[t].idx >= tasks[t].idx
              /\ (tasks[t].pc = "file_loop" /\ tasks'[t].pc = "in_file") =>
                    /\ EarlierMarked(t, tasks'[t].idx)
                    /\ CurrentFile(tasks'[t]) \notin tasks[t].processed_files
              /\ NewMarkers # {} =>
                    /\ tasks[t].pc = "marker"
                    /\ NewMarkers = {Marker(tasks[t].job_id, CurrentFile(tasks[t]))}
                    /\ EarlierMarked(t, tasks[t].idx)]_vars

\* a task has written the marker of the second file of its enumeration, after
\* that of the first
C35_Witness ==
    \E t \in 1..Len(tasks) :
        /\ tasks[t].pc = "file_done" /\ tasks[t].idx = 2
        /\ tasks[t].processed_files = {}
        /\ EarlierMarked(t, 3)

(***************************************************************************)
(* The calls of generate_s3_paths: customer folders and hours drawn from   *)
(* the hours of the model, with one text that is no hour.                  *)
(***************************************************************************)
PathHours == Range(Hours) \cup Range(LastHours) \cup {"2024-01-01"}

generate(customer_folder, start_datetime, end_datetime) ==
    /\ generated' = [customer_folder |-> customer_folder,
                     start_datetime |-> start_datetime, end_datetime |-> end_datetime,
                     raised |-> PathsError(start_datetime, end_datetime),
                     result |-> generate_s3_paths(customer_folder, start_datetime,
                                                  end_datetime)]
    /\ UNCHANGED <<gone, storage, faults, parsed, disk, clock, db_initialized, job_states,
                   store, tasks, running, starts, crashes, cut, early>>

\* the calls whose hours the model can name: the range does not span the years
\* between Hours and LastHours
NextPaths ==
    \E customer_folder \in {"cust", "ghost", "other"},
       start_datetime \in PathHours, end_datetime \in PathHours :
        /\ ParseHour(end_datetime) - ParseHour(start_datetime) < Len(Hours)
        /\ generate(customer_folder, start_datetime, end_datetime)

SpecPaths == Init /\ [][NextPaths]_vars

(***************************************************************************)
(* C36.  Hour-prefix generation: for a start and an end hour with          *)
(* start <= end, generate_s3_paths returns (hours between start and end)   *)
(* + 1 prefixes <<customer_folder, hour>>, one per hour in increasing      *)
(* order, the first for the start hour and the last for the end hour; for  *)
(* start > end it raises and returns no prefix.  (Stated as claimed; the   *)
(* code violates it.)                                                      *)
(***************************************************************************)
C36_HourPrefixes ==
    LET start_dt == ParseHour(generated.start_datetime)
        end_dt == ParseHour(generated.end_datetime)
    IN  (start_dt # 0 /\ end_dt # 0) =>
            /\ start_dt <= end_dt =>
                  /\ ~generated.raised
                  /\ Len(generated.result) = end_dt - start_dt + 1
                  /\ \A i \in 1..Len(generated.result) :
                        generated.result[i] =
                            <<generated.customer_folder, strftime(start_dt + i - 1)>>
            /\ start_dt > end_dt =>
                  /\ generated.raised
                  /\ generated.result = <<>>

(***************************************************************************)
(* The runs without pause, resume, delete and kill, with tasks that the    *)
(* event loop keeps scheduling: asyncio runs a task that is ready, so a    *)
(* step of a task that stays enabled is taken.                             *)
(***************************************************************************)
NextLive ==
    \/ startup_event
    \/ \E request \in Requests, now \in 0..MaxClock : now >= clock /\ start_job(request, now)
    \/ \E t \in 1..MaxTasks : DataStep(t)

SpecLive ==
    /\ Init
    /\ [][NextLive]_vars
    /\ \A t \in 1..MaxTasks : WF_vars(DataStep(t))

(***************************************************************************)
(* C37.  Termination: with no pause, delete or kill and a fairly scheduled *)
(* task, a job that is RUNNING is eventually COMPLETED or ERROR, in        *)
(* job_states and in its row: whenever some job is RUNNING, a state        *)
(* follows in which every registered job is COMPLETED or ERROR.            *)
(***************************************************************************)
Running(job_id) ==
    /\ Registered(job_id) /\ job_states[job_id].status = "RUNNING"
    /\ job_id \in DOMAIN jobs

Terminated(job_id) ==
    /\ Registered(job_id) /\ job_states[job_id].status \in {"COMPLETED", "ERROR"}
    /\ job_id \in DOMAIN jobs /\ jobs[job_id].status = job_states[job_id].status

\* some job is RUNNING
SomeRunning == \E job_id \in JobIds : Running(job_id)

\* every registered job has terminated
AllTerminated == \A job_id \in DOMAIN job_states : Terminated(job_id)

C37_Termination == SomeRunning ~> AllTerminated

\* the task of a job over two files has returned, all lines read, and the job
\* is COMPLETED
C37_Witness ==
    /\ Len(tasks) = 1 /\ tasks[1].pc = "done" /\ tasks[1].exit = "completed"
    /\ Terminated(tasks[1].job_id)
    /\ jobs[tasks[1].job_id].status = "COMPLETED"
    /\ jobs[tasks[1].job_id].total_files = 2
    /\ logs # Empty

====
